---------------------------- MODULE Spec2Model ----------------------------
(***************************************************************************)
(* A model of the pure core of json-viewer's app.js: the structural diff   *)
(* (jsonDiff), the statistics collector (getJSONStats), the path-addressed *)
(* tree renderer (buildTreeHTML), the parser diagnostics (parseJSON), the  *)
(* token classifier (syntaxHighlight) and the transcoders (jsonToXml,      *)
(* jsonToTypeScript); and of its two pieces of interface state, the search *)
(* cursor (searchTree, searchNext, searchPrev) and the toast (showToast).  *)
(*                                                                         *)
(* JavaScript values are records tagged by the field t.  A Tree Value is   *)
(* what JSON.parse returns: null, a boolean, a number, a string, an array  *)
(* or a plain object.  An object is the sequence of its own members in     *)
(* Object.keys order.  Two more values exist in the language but never in  *)
(* a Tree Value: undefined, and the functions every plain object inherits  *)
(* from Object.prototype.                                                  *)
(***************************************************************************)
EXTENDS Integers, Sequences, FiniteSets, TLC

VARIABLES
    obj1, obj2,     \* jsonDiff: the two arguments
    sameRef,        \* jsonDiff: whether obj1 and obj2 are one and the same reference
    diffs,          \* jsonDiff: the returned array of entries
    data,           \* getJSONStats / buildTreeHTML: the argument
    reordered,      \* getJSONStats: data with the members of its objects permuted
    stats,          \* getJSONStats(data)
    stats2,         \* getJSONStats(reordered)
    html,           \* buildTreeHTML(data): the returned markup, element by element
    text,           \* parseJSON: the argument, a sequence of characters
    engine,         \* parseJSON: the JavaScript engine, which words the parser's errors
    thrown,         \* parseJSON: the message of the error JSON.parse threw, <<>> if none
    result,         \* parseJSON: the returned record
    stack,          \* the nested calls the engine's call stack has room for
    outcome,        \* how a call on that stack ended: "returned" or the error thrown
    rnd,            \* buildTreeHTML: the values Math.random returns, in call order
    highlighted,    \* syntaxHighlight(text): the returned markup, piece by piece
    xml1, xml2,     \* jsonToXml(obj1), jsonToXml(obj2): the returned texts
    ts,             \* jsonToTypeScript(data): the returned text, piece by piece
    diffsSwapped,   \* jsonDiff(obj2, obj1)
    doc,            \* searchTree: the text nodes of the tree container
    searchMatches,  \* _searchMatches
    searchIndex,    \* _searchIndex
    called,         \* the search function called last, with its argument and result
    toasts,         \* showToast: the toast elements in the document, in document order
    timers,         \* showToast: the pending timeouts, each with the toast it removes
    shown,          \* showToast: the number of calls so far
    pc              \* "start" before the call of the specification, "done" after

vars == <<obj1, obj2, sameRef, diffs, data, reordered, stats, stats2, html,
          text, engine, thrown, result, stack, outcome, rnd, highlighted,
          xml1, xml2, ts, diffsSwapped, doc, searchMatches, searchIndex, called,
          toasts, timers, shown, pc>>

---------------------------------------------------------------------------
(* Bounds *)

\* jsonDiff is run on every pair of Tree Values with at most this many nodes in all.
MaxDiffNodes == 5

\* parseJSON is run on every text of at most this many chunks of TextChunks.
MaxChunks == 3

\* The single-argument operations are run on every Tree Value of at most this many nodes.
MaxTreeNodes == 4

---------------------------------------------------------------------------
(* JavaScript values *)

Null == [t |-> "null"]
Undefined == [t |-> "undefined"]
Bool(b) == [t |-> "bool", b |-> b]
Num(n) == [t |-> "num", n |-> n]
Str(s) == [t |-> "str", s |-> s]
List(items) == [t |-> "list", items |-> items]
Obj(members) == [t |-> "obj", members |-> members]
\* The value of o[key] for a key that o only inherits (Object.prototype[key]).
ProtoValue(key) == [t |-> "function", name |-> key]

\* Property names every plain object inherits from Object.prototype.
ObjectPrototypeKeys ==
    {"constructor", "toString", "valueOf", "hasOwnProperty", "toLocaleString",
     "isPrototypeOf", "propertyIsEnumerable"}

\* typeof v
TypeOf(v) ==
    CASE v.t = "null" -> "object"
      [] v.t = "list" -> "object"
      [] v.t = "obj" -> "object"
      [] v.t = "bool" -> "boolean"
      [] v.t = "num" -> "number"
      [] v.t = "str" -> "string"
      [] v.t = "function" -> "function"
      [] v.t = "undefined" -> "undefined"

\* Array.isArray(v)
IsArray(v) == v.t = "list"

\* Object.keys(o), o a plain object: its own keys in member order.
ObjectKeys(o) == [i \in 1..Len(o.members) |-> o.members[i].key]

OwnKeySet(o) == {o.members[i].key : i \in 1..Len(o.members)}

\* key in o, o a plain object: own or inherited.
HasProperty(key, o) == key \in OwnKeySet(o) \/ key \in ObjectPrototypeKeys

\* o[key], o a plain object.
GetProperty(o, key) ==
    IF key \in OwnKeySet(o)
    THEN LET i == CHOOSE j \in 1..Len(o.members) : o.members[j].key = key
         IN  o.members[i].val
    ELSE IF key \in ObjectPrototypeKeys THEN ProtoValue(key)
    ELSE Undefined

\* The smaller of the two.
MathMin(x, y) == IF x < y THEN x ELSE y

\* Math.max(x, y)
MathMax(x, y) == IF x > y THEN x ELSE y

\* A comparison by reference for every value, primitives included.
StrictEquals_ByReference(a, b, same) == a = b /\ same

\* a === b.  Primitives compare by value; arrays and objects by reference, and
\* same says whether the two references are one.
StrictEquals(a, b, same) ==
    IF a.t \in {"list", "obj"} \/ b.t \in {"list", "obj"}
    THEN a = b /\ same
    ELSE a = b

---------------------------------------------------------------------------
(* The Tree Values the specifications draw their inputs from *)

Scalars == {Null, Num(1), Num(2)}

\* Object keys: plain ones, and one that every object also inherits.  A tree
\* takes its keys from one of these families.
KeyFamilies == {{"a", "b"}, {"a", "constructor"}}

\* The sequences of n distinct keys of K.
KeySeqs(n, K) == {s \in [1..n -> K] : \A i, j \in 1..n : s[i] = s[j] => i = j}

RECURSIVE TreesOfSize(_, _), ForestsOfSize(_, _)
\* The Tree Values of exactly n nodes with keys in K.
TreesOfSize(n, K) ==
    IF n < 1 THEN {}
    ELSE (IF n = 1 THEN Scalars ELSE {})
         \cup {List(f) : f \in ForestsOfSize(n - 1, K)}
         \cup UNION {{Obj([i \in 1..Len(f) |-> [key |-> ks[i], val |-> f[i]]]) :
                        ks \in KeySeqs(Len(f), K)} : f \in ForestsOfSize(n - 1, K)}

\* The sequences of Tree Values of exactly m nodes in all.
ForestsOfSize(m, K) ==
    IF m = 0 THEN {<<>>}
    ELSE UNION {{<<tr>> \o f : tr \in TreesOfSize(s, K), f \in ForestsOfSize(m - s, K)} :
                  s \in 1..m}

TreesUpTo(n, K) == UNION {TreesOfSize(k, K) : k \in 1..n}

RECURSIVE TreesWith(_, _, _), ForestsWith(_, _, _)
\* The Tree Values of exactly n nodes with keys in K and scalars in S.
TreesWith(n, K, S) ==
    IF n < 1 THEN {}
    ELSE (IF n = 1 THEN S ELSE {})
         \cup {List(f) : f \in ForestsWith(n - 1, K, S)}
         \cup UNION {{Obj([i \in 1..Len(f) |-> [key |-> ks[i], val |-> f[i]]]) :
                        ks \in KeySeqs(Len(f), K)} : f \in ForestsWith(n - 1, K, S)}

ForestsWith(m, K, S) ==
    IF m = 0 THEN {<<>>}
    ELSE UNION {{<<tr>> \o f : tr \in TreesWith(s, K, S), f \in ForestsWith(m - s, K, S)} :
                  s \in 1..m}

TreesWithUpTo(n, K, S) == UNION {TreesWith(k, K, S) : k \in 1..n}

\* The pairs of trees of at most n nodes in all.
DiffInputs(n) ==
    UNION {UNION {TreesOfSize(i, K) \X TreesUpTo(n - i, K) : i \in 1..(n - 1)} :
             K \in KeyFamilies}

\* The trees of at most n nodes.
TreeInputs(n) == UNION {TreesUpTo(n, K) : K \in KeyFamilies}

\* The sequences that pick one element of each set of the sequence sets.
Choices(sets) ==
    {f \in [1..Len(sets) -> UNION {sets[i] : i \in 1..Len(sets)}] :
        \A i \in 1..Len(sets) : f[i] \in sets[i]}

IndexPermutations(n) == {s \in [1..n -> 1..n] : \A i, j \in 1..n : s[i] = s[j] => i = j}

RECURSIVE Reorderings(_)
\* The trees that differ from v only in the member order of objects: what
\* parsing the same document with its members written in another order gives.
Reorderings(v) ==
    IF v.t = "list"
    THEN {List(f) : f \in Choices([i \in 1..Len(v.items) |-> Reorderings(v.items[i])])}
    ELSE IF v.t = "obj"
    THEN UNION {{Obj([i \in 1..Len(f) |-> [key |-> v.members[pi[i]].key, val |-> f[pi[i]]]]) :
                    pi \in IndexPermutations(Len(f))} :
                  f \in Choices([i \in 1..Len(v.members) |-> Reorderings(v.members[i].val)])}
    ELSE {v}

---------------------------------------------------------------------------
(* jsonDiff *)

RECURSIVE Flatten(_)
\* The concatenation of a sequence of sequences.
Flatten(ss) == IF ss = <<>> THEN <<>> ELSE Head(ss) \o Flatten(Tail(ss))

\* The entry with the old and the new value exchanged.
Changed_Swapped(p, a, b) == [type |-> "changed", path |-> p, oldValue |-> b, newValue |-> a]

\* The entry of a removal recorded as an addition.
Removed_AsAdded(p, a) == [type |-> "added", path |-> p, value |-> a]

Changed(p, a, b) == [type |-> "changed", path |-> p, oldValue |-> a, newValue |-> b]
Added(p, b) == [type |-> "added", path |-> p, value |-> b]
Removed(p, a) == [type |-> "removed", path |-> p, value |-> a]

\* `${p}[${i}]`
IndexPath(p, i) == p \o "[" \o ToString(i) \o "]"
\* `${p}.${key}`
KeyPath(p, key) == p \o "." \o key

\* The union that starts with the keys of b.
AllKeys_RightFirst(a, b) ==
    LET ks == ObjectKeys(b) \o ObjectKeys(a)
    IN  SelectSeq([i \in 1..Len(ks) |-> [k |-> ks[i], first |-> \A j \in 1..(i - 1) : ks[j] # ks[i]]],
                  LAMBDA e : e.first)

\* new Set([...Object.keys(a), ...Object.keys(b)]) in its iteration order: a
\* Set keeps the first insertion of each element.
AllKeys(a, b) ==
    LET ks == ObjectKeys(a) \o ObjectKeys(b)
    IN  SelectSeq([i \in 1..Len(ks) |-> [k |-> ks[i], first |-> \A j \in 1..(i - 1) : ks[j] # ks[i]]],
                  LAMBDA e : e.first)

RECURSIVE compare(_, _, _, _)
\* compare(a, b, p): the entries it pushes on diffs, in the order pushed.
compare(a, b, p, same) ==
    IF StrictEquals(a, b, same) THEN <<>>
    ELSE IF a = Null \/ b = Null \/ TypeOf(a) # TypeOf(b) \/ TypeOf(a) # "object"
    THEN IF a # Undefined /\ b # Undefined THEN <<Changed(p, a, b)>>
         ELSE IF a = Undefined THEN <<Added(p, b)>>
         ELSE <<Removed(p, a)>>
    ELSE IF IsArray(a) /\ IsArray(b)
    THEN LET maxLen == MathMax(Len(a.items), Len(b.items))
         IN  Flatten([n \in 1..maxLen |->
                 LET i == n - 1
                 IN  IF i >= Len(a.items) THEN <<Added(IndexPath(p, i), b.items[n])>>
                     ELSE IF i >= Len(b.items) THEN <<Removed(IndexPath(p, i), a.items[n])>>
                     ELSE compare(a.items[n], b.items[n], IndexPath(p, i), FALSE)])
    ELSE IF IsArray(a) # IsArray(b) THEN <<Changed(p, a, b)>>
    ELSE LET allKeys == AllKeys(a, b)
         IN  Flatten([n \in 1..Len(allKeys) |->
                 LET key == allKeys[n].k
                     childPath == KeyPath(p, key)
                 IN  IF ~HasProperty(key, a) THEN <<Added(childPath, GetProperty(b, key))>>
                     ELSE IF ~HasProperty(key, b) THEN <<Removed(childPath, GetProperty(a, key))>>
                     ELSE compare(GetProperty(a, key), GetProperty(b, key), childPath, FALSE)])

\* jsonDiff(obj1, obj2) with the default path '$'.
jsonDiff(a, b, same) == compare(a, b, "$", same)

---------------------------------------------------------------------------
(* Specifications *)

\* jsonDiff on every pair of inputs; a pair of equal trees may be one reference
\* (jsonDiff(v, v)) or two separately built copies.
InitDiff ==
    /\ pc = "start"
    /\ \E pair \in DiffInputs(MaxDiffNodes) :
          /\ obj1 = pair[1]
          /\ obj2 = pair[2]
          /\ sameRef \in (IF pair[1] = pair[2] THEN BOOLEAN ELSE {FALSE})
    /\ diffs = <<>>
    /\ data = Null /\ reordered = Null /\ stats = <<>> /\ stats2 = <<>> /\ html = <<>>
    /\ text = <<>> /\ engine = "legacy" /\ thrown = <<>> /\ result = <<>>
    /\ stack = 0 /\ outcome = "" /\ rnd = <<>> /\ highlighted = <<>>
    /\ xml1 = <<>> /\ xml2 = <<>> /\ ts = <<>>
    /\ diffsSwapped = <<>> /\ doc = <<>> /\ searchMatches = <<>> /\ searchIndex = -1
    /\ called = <<>> /\ toasts = <<>> /\ timers = {} /\ shown = 0

CallJsonDiff ==
    /\ pc = "start"
    /\ diffs' = jsonDiff(obj1, obj2, sameRef)
    /\ pc' = "done"
    /\ UNCHANGED <<obj1, obj2, sameRef, data, reordered, stats, stats2, html,
                   text, engine, thrown, result,
                   stack, outcome, rnd, highlighted, xml1, xml2, ts,
                   diffsSwapped, doc, searchMatches, searchIndex, called, toasts, timers,
                   shown>>

NextDiff == CallJsonDiff

SpecDiff == InitDiff /\ [][NextDiff]_vars

\* jsonDiff on a tree and a deeply equal one: the same reference, a separately
\* built copy, or a copy whose objects list their members in another order.
InitEqual ==
    /\ pc = "start"
    /\ obj1 \in TreeInputs(MaxTreeNodes)
    /\ obj2 \in Reorderings(obj1)
    /\ sameRef \in (IF obj1 = obj2 THEN BOOLEAN ELSE {FALSE})
    /\ diffs = <<>>
    /\ data = Null /\ reordered = Null /\ stats = <<>> /\ stats2 = <<>> /\ html = <<>>
    /\ text = <<>> /\ engine = "legacy" /\ thrown = <<>> /\ result = <<>>
    /\ stack = 0 /\ outcome = "" /\ rnd = <<>> /\ highlighted = <<>>
    /\ xml1 = <<>> /\ xml2 = <<>> /\ ts = <<>>
    /\ diffsSwapped = <<>> /\ doc = <<>> /\ searchMatches = <<>> /\ searchIndex = -1
    /\ called = <<>> /\ toasts = <<>> /\ timers = {} /\ shown = 0

SpecEqual == InitEqual /\ [][NextDiff]_vars

\* jsonDiff on a pair of inputs and on the pair exchanged.
CallJsonDiffBothWays ==
    /\ pc = "start"
    /\ diffs' = jsonDiff(obj1, obj2, sameRef)
    /\ diffsSwapped' = jsonDiff(obj2, obj1, sameRef)
    /\ pc' = "done"
    /\ UNCHANGED <<obj1, obj2, sameRef, data, reordered, stats, stats2, html,
                   text, engine, thrown, result,
                   stack, outcome, rnd, highlighted, xml1, xml2, ts,
                   doc, searchMatches, searchIndex, called, toasts, timers,
                   shown>>

NextSwap == CallJsonDiffBothWays

SpecSwap == InitDiff /\ [][NextSwap]_vars

---------------------------------------------------------------------------
(* Properties of jsonDiff *)

\* The Diff Entries as the specification writes them.
EntryChanged(p, old, new) == [type |-> "changed", path |-> p, oldValue |-> old, newValue |-> new]
EntryAdded(p, v) == [type |-> "added", path |-> p, value |-> v]
EntryRemoved(p, v) == [type |-> "removed", path |-> p, value |-> v]

\* The own value of key k in object o.
OwnValue(o, k) == o.members[CHOOSE j \in 1..Len(o.members) : o.members[j].key = k].val

RECURSIVE PathSet(_, _)
\* The Path strings of the node at p and of all its descendants in v.
PathSet(v, p) ==
    {p} \cup
    (IF v.t = "list"
     THEN UNION {PathSet(v.items[n], p \o "[" \o ToString(n - 1) \o "]") : n \in 1..Len(v.items)}
     ELSE IF v.t = "obj"
     THEN UNION {PathSet(v.members[n].val, p \o "." \o v.members[n].key) : n \in 1..Len(v.members)}
     ELSE {})

\* The entries of ds that lie at or below the child at cp, in order.
EntriesUnder(ds, cp, va, vb) ==
    SelectSeq(ds, LAMBDA e : e.path \in PathSet(va, cp) \cup PathSet(vb, cp))

\* C1: jsonDiff of two deeply equal Tree Values is the empty sequence, for the
\* same reference and for separately built copies alike.
C1_EqualTreesNoDiff == pc = "done" => diffs = <<>>

\* A copy, not the same reference, of an object with a container inside and
\* its members in another order.
C1_Witness ==
    /\ pc = "done" /\ ~sameRef /\ obj1.t = "obj" /\ obj1 # obj2
    /\ \E n \in 1..Len(obj1.members) : obj1.members[n].val.t \in {"list", "obj"}
    /\ diffs = <<>>

\* Two present nodes that are unequal and not both Lists or both Objects.
Unlike(a, b) ==
    /\ a # b
    /\ ~(a.t = "list" /\ b.t = "list")
    /\ ~(a.t = "obj" /\ b.t = "obj")

Min(x, y) == IF x < y THEN x ELSE y
Max(x, y) == IF x > y THEN x ELSE y

\* C3: two present, unequal nodes that are not both Lists or both Objects give
\* exactly one 'changed' entry at the node's path with the whole old and new
\* subtrees, and no entry for a descendant; at the root and at every child of
\* the root that both sides have.
C3_UnlikeNodesOneChanged ==
    pc = "done" =>
        /\ Unlike(obj1, obj2) => diffs = <<EntryChanged("$", obj1, obj2)>>
        /\ (obj1.t = "list" /\ obj2.t = "list") =>
              \A n \in 1..Min(Len(obj1.items), Len(obj2.items)) :
                 LET cp == "$[" \o ToString(n - 1) \o "]"
                 IN  Unlike(obj1.items[n], obj2.items[n]) =>
                        EntriesUnder(diffs, cp, obj1.items[n], obj2.items[n])
                           = <<EntryChanged(cp, obj1.items[n], obj2.items[n])>>
        /\ (obj1.t = "obj" /\ obj2.t = "obj") =>
              \A k \in OwnKeySet(obj1) \cap OwnKeySet(obj2) :
                 LET cp == "$." \o k
                 IN  Unlike(OwnValue(obj1, k), OwnValue(obj2, k)) =>
                        EntriesUnder(diffs, cp, OwnValue(obj1, k), OwnValue(obj2, k))
                           = <<EntryChanged(cp, OwnValue(obj1, k), OwnValue(obj2, k))>>

\* A List against an Object under the same key: one entry, for the subtree root.
C3_Witness ==
    /\ pc = "done" /\ obj1.t = "obj" /\ obj2.t = "obj"
    /\ \E k \in OwnKeySet(obj1) \cap OwnKeySet(obj2) :
          /\ OwnValue(obj1, k).t = "list" /\ OwnValue(obj1, k).items # <<>>
          /\ OwnValue(obj2, k).t = "obj"
          /\ diffs = <<EntryChanged("$." \o k, OwnValue(obj1, k), OwnValue(obj2, k))>>

\* C4: comparing two Objects, every key of the union of the two key sets gives:
\* 'added' with the right value if it is a member of the right Object only,
\* 'removed' with the left value if a member of the left only, the recursive
\* comparison at path.key if a member of both; for every key string.
C4_ObjectKeysByMembership ==
    (pc = "done" /\ obj1.t = "obj" /\ obj2.t = "obj") =>
        \A k \in OwnKeySet(obj1) \cup OwnKeySet(obj2) :
           LET cp == "$." \o k
               va == IF k \in OwnKeySet(obj1) THEN OwnValue(obj1, k) ELSE Undefined
               vb == IF k \in OwnKeySet(obj2) THEN OwnValue(obj2, k) ELSE Undefined
               mine == EntriesUnder(diffs, cp, va, vb)
           IN  /\ k \notin OwnKeySet(obj1) => mine = <<EntryAdded(cp, vb)>>
               /\ k \notin OwnKeySet(obj2) => mine = <<EntryRemoved(cp, va)>>
               /\ k \in OwnKeySet(obj1) \cap OwnKeySet(obj2)
                     => mine = compare(va, vb, cp, FALSE)

\* C5: two Lists are compared by position, index by index up to the longer
\* length: 'added' beyond the left length, 'removed' beyond the right length,
\* the recursive comparison of the two elements of the same index otherwise.
C5_ListsByPosition ==
    (pc = "done" /\ obj1.t = "list" /\ obj2.t = "list" /\ ~sameRef) =>
        /\ diffs = Flatten([n \in 1..Max(Len(obj1.items), Len(obj2.items)) |->
                      LET cp == "$[" \o ToString(n - 1) \o "]"
                      IN  IF n > Len(obj1.items) THEN <<EntryAdded(cp, obj2.items[n])>>
                          ELSE IF n > Len(obj2.items) THEN <<EntryRemoved(cp, obj1.items[n])>>
                          ELSE compare(obj1.items[n], obj2.items[n], cp, FALSE)])
        /\ \A n \in 1..Max(Len(obj1.items), Len(obj2.items)) :
              \A i \in 1..Len(diffs) :
                 diffs[i].path = "$[" \o ToString(n - 1) \o "]" =>
                    CASE diffs[i].type = "changed" ->
                            /\ n <= Min(Len(obj1.items), Len(obj2.items))
                            /\ diffs[i].oldValue = obj1.items[n]
                            /\ diffs[i].newValue = obj2.items[n]
                      [] diffs[i].type = "added" ->
                            n > Len(obj1.items) /\ diffs[i].value = obj2.items[n]
                      [] diffs[i].type = "removed" ->
                            n > Len(obj2.items) /\ diffs[i].value = obj1.items[n]

\* A changed element followed by an element only the right list has.
C5_Witness ==
    /\ pc = "done" /\ obj1.t = "list" /\ obj2.t = "list"
    /\ Len(obj1.items) = 1 /\ Len(obj2.items) = 2
    /\ Len(diffs) = 2
    /\ diffs[1].type = "changed" /\ diffs[2].type = "added"

\* C6: comparing two Objects, the entries come key by key: the keys of the left
\* Object in its key order, then the keys only the right Object has in its key
\* order; diff({"a":1},{"b":1}) is [removed $.a 1, added $.b 1].
C6_EntriesInKeyOrder ==
    (pc = "done" /\ obj1.t = "obj" /\ obj2.t = "obj") =>
        LET order == ObjectKeys(obj1)
                       \o SelectSeq(ObjectKeys(obj2), LAMBDA k : k \notin OwnKeySet(obj1))
            va(k) == IF k \in OwnKeySet(obj1) THEN OwnValue(obj1, k) ELSE Undefined
            vb(k) == IF k \in OwnKeySet(obj2) THEN OwnValue(obj2, k) ELSE Undefined
            keyOf(e) == CHOOSE n \in 1..Len(order) :
                           e.path \in PathSet(va(order[n]), "$." \o order[n])
                                        \cup PathSet(vb(order[n]), "$." \o order[n])
        IN  /\ \A i \in 1..Len(diffs) :
                  \E n \in 1..Len(order) :
                     diffs[i].path \in PathSet(va(order[n]), "$." \o order[n])
                                         \cup PathSet(vb(order[n]), "$." \o order[n])
            /\ \A i, j \in 1..Len(diffs) : i < j => keyOf(diffs[i]) <= keyOf(diffs[j])
            /\ (obj1 = Obj(<<[key |-> "a", val |-> Num(1)]>>)
                  /\ obj2 = Obj(<<[key |-> "b", val |-> Num(1)]>>))
                 => diffs = <<EntryRemoved("$.a", Num(1)), EntryAdded("$.b", Num(1))>>

\* Two left keys written b, a and a right-only key: three entries, in that order.
C6_Witness ==
    /\ pc = "done" /\ obj1.t = "obj" /\ obj2.t = "obj"
    /\ ObjectKeys(obj1) = <<"a">> /\ ObjectKeys(obj2) = <<"b", "a">>
    /\ Len(diffs) = 2
    /\ diffs[1].path = "$.a" /\ diffs[2].path = "$.b"

RECURSIVE DeepEqual(_, _)
\* Deep equality of two values: the same type and value recursively; two
\* Objects are equal when they have the same keys with equal values.
DeepEqual(a, b) ==
    IF a.t = "list" /\ b.t = "list"
    THEN /\ Len(a.items) = Len(b.items)
         /\ \A n \in 1..Len(a.items) : DeepEqual(a.items[n], b.items[n])
    ELSE IF a.t = "obj" /\ b.t = "obj"
    THEN /\ OwnKeySet(a) = OwnKeySet(b)
         /\ \A k \in OwnKeySet(a) : DeepEqual(OwnValue(a, k), OwnValue(b, k))
    ELSE a = b

\* The value an entry puts at its path.
EntryValue(e) == IF e.type = "changed" THEN e.newValue ELSE e.value

\* The key strings the trees of the model use.
KeyNames == UNION KeyFamilies

RECURSIVE ApplyPatch(_, _, _)
\* The node at path p, v, after the entries ds: replaced by the value of a
\* 'changed' or 'added' entry at p; otherwise its children patched, without the
\* children that have a 'removed' entry, with the children that an entry sets
\* at a path where v has none.
ApplyPatch(v, p, ds) ==
    LET sets(q) == SelectSeq(ds, LAMBDA e : e.path = q /\ e.type \in {"changed", "added"})
        removes(q) == \E i \in 1..Len(ds) : ds[i].path = q /\ ds[i].type = "removed"
    IN  IF sets(p) # <<>> THEN EntryValue(sets(p)[Len(sets(p))])
        ELSE IF v.t = "list"
        THEN LET old == [n \in 1..Len(v.items) |->
                            [gone |-> removes(IndexPath(p, n - 1)),
                             val |-> ApplyPatch(v.items[n], IndexPath(p, n - 1), ds)]]
                 kept == SelectSeq(old, LAMBDA c : ~c.gone)
                 new == SelectSeq([n \in 1..Len(ds) |-> sets(IndexPath(p, Len(v.items) + n - 1))],
                                  LAMBDA es : es # <<>>)
             IN  List([n \in 1..Len(kept) |-> kept[n].val]
                        \o [n \in 1..Len(new) |-> EntryValue(new[n][Len(new[n])])])
        ELSE IF v.t = "obj"
        THEN LET old == [n \in 1..Len(v.members) |->
                            [gone |-> removes(KeyPath(p, v.members[n].key)),
                             key |-> v.members[n].key,
                             val |-> ApplyPatch(v.members[n].val, KeyPath(p, v.members[n].key), ds)]]
                 kept == SelectSeq(old, LAMBDA c : ~c.gone)
                 new == SelectSeq(ds, LAMBDA e :
                            /\ e.type \in {"changed", "added"}
                            /\ \E k \in KeyNames \ OwnKeySet(v) : e.path = KeyPath(p, k))
                 keyAt(e) == CHOOSE k \in KeyNames \ OwnKeySet(v) : e.path = KeyPath(p, k)
             IN  Obj([n \in 1..Len(kept) |-> [key |-> kept[n].key, val |-> kept[n].val]]
                       \o [n \in 1..Len(new) |-> [key |-> keyAt(new[n]), val |-> EntryValue(new[n])]])
        ELSE v

\* C2: the entries of jsonDiff(a, b), applied to a as a patch, give a tree
\* deeply equal to b.
C2_PatchGivesRight == pc = "done" => DeepEqual(ApplyPatch(obj1, "$", diffs), obj2)

RECURSIVE KeysOf(_)
\* The keys of all the Objects of v.
KeysOf(v) ==
    IF v.t = "list" THEN UNION {KeysOf(v.items[n]) : n \in 1..Len(v.items)}
    ELSE IF v.t = "obj"
    THEN OwnKeySet(v) \cup UNION {KeysOf(v.members[n].val) : n \in 1..Len(v.members)}
    ELSE {}

\* The same, for the pairs of trees in which no key is an inherited property name.
C2_PatchWithoutInheritedKeys ==
    (pc = "done" /\ (KeysOf(obj1) \cup KeysOf(obj2)) \cap ObjectPrototypeKeys = {}) =>
        DeepEqual(ApplyPatch(obj1, "$", diffs), obj2)

---------------------------------------------------------------------------
(* buildTreeHTML *)

\* The characters of the string values rendered: those that are escaped, and
\* those that spell an entity.
StringChars == {"&", "<", ">", "\"", "l", "t", ";"}

\* A string value holds at most this many characters.
MaxStringLength == 4

\* The strings of at most n characters.
Strings(n) == UNION {[1..k -> StringChars] : k \in 0..n}

\* The trees with one string value of at most n characters: the string alone,
\* in a list, and in an object.
StringTrees(n) ==
    UNION {{Str(str), List(<<Str(str)>>), Obj(<<[key |-> "a", val |-> Str(str)]>>)} :
             str \in Strings(n)}

\* The trees rendered, of at most n nodes: those of TreeInputs, and trees with
\* a key that holds a '.' or a '['.
RenderInputs(n) ==
    TreeInputs(n) \cup TreesUpTo(n, {"a", "a.a"}) \cup TreesUpTo(n, {"a", "a[0]"})

\* One element of the markup: its class, its data-path attribute (<<>> when it
\* has none), its id attribute (<<>> when it has none), the text it holds (for
\* a value span) and, not in the markup, the position in the tree of the node
\* it was written for: the steps from the root, [k |-> key] or [i |-> index].
Element(cls, dataPath, node) ==
    [cls |-> cls, dataPath |-> dataPath, node |-> node, id |-> <<>>, content |-> <<>>]

RECURSIVE ReplaceAll(_, _, _)
\* s.replace(/c/g, rep) for one character c.
ReplaceAll(s, c, rep) ==
    IF s = <<>> THEN <<>>
    ELSE (IF Head(s) = c THEN rep ELSE <<Head(s)>>) \o ReplaceAll(Tail(s), c, rep)

Amp == <<"&", "a", "m", "p", ";">>
Lt == <<"&", "l", "t", ";">>
Gt == <<"&", "g", "t", ";">>
Quot == <<"&", "q", "u", "o", "t", ";">>

\* The four replacements with that of '&' made last.
Escaped_AmpersandLast(s) ==
    ReplaceAll(ReplaceAll(ReplaceAll(ReplaceAll(s, "<", Lt), ">", Gt), "\"", Quot), "&", Amp)

\* data.replace(/&/g, '&amp;').replace(/</g, '&lt;').replace(/>/g, '&gt;').replace(/"/g, '&quot;')
Escaped(s) ==
    ReplaceAll(ReplaceAll(ReplaceAll(ReplaceAll(s, "&", Amp), "<", Lt), ">", Gt), "\"", Quot)

\* substr(2, 9) keeps this many characters.
IdLength == 9

\* A value of Math.random() is modelled by the base-36 digits of its fraction,
\* which toString(36) writes after "0.".
RandomValues == {<<"k">>, <<"z", "1">>}

\* 'node-' + Math.random().toString(36).substr(2, 9)
NodeId(r) ==
    <<"n", "o", "d", "e", "-">> \o SubSeq(r, 1, IF Len(r) < IdLength THEN Len(r) ELSE IdLength)

RECURSIVE Sum(_)
Sum(ns) == IF ns = <<>> THEN 0 ELSE Head(ns) + Sum(Tail(ns))

RECURSIVE RandomCalls(_)
\* The calls of Math.random that buildTreeHTML(d) makes: one in every call that
\* gets past the scalars, that for an empty container included.
RandomCalls(d) ==
    IF d.t = "list" THEN 1 + Sum([n \in 1..Len(d.items) |-> RandomCalls(d.items[n])])
    ELSE IF d.t = "obj"
    THEN 1 + Sum([n \in 1..Len(d.members) |-> RandomCalls(d.members[n].val)])
    ELSE 0

RECURSIVE buildTreeHTML(_, _, _, _)
\* buildTreeHTML(data, path): the elements of the returned markup in order;
\* node is the position of data, rs the values the calls of Math.random return.
buildTreeHTML(d, path, node, rs) ==
    IF d = Null
    THEN <<[Element("tree-null", <<path>>, node) EXCEPT !.content = <<"n", "u", "l", "l">>]>>
    ELSE IF TypeOf(d) # "object"
    THEN IF TypeOf(d) = "string"
         THEN <<[Element("tree-string", <<path>>, node)
                    EXCEPT !.content = <<"\"">> \o Escaped(d.s) \o <<"\"">>]>>
         ELSE IF TypeOf(d) = "boolean"
         THEN <<[Element("tree-boolean", <<path>>, node)
                    EXCEPT !.content = IF d.b THEN <<"t", "r", "u", "e">>
                                       ELSE <<"f", "a", "l", "s", "e">>]>>
         ELSE <<[Element("tree-number", <<path>>, node) EXCEPT !.content = <<ToString(d.n)>>]>>
    ELSE LET isArray == IsArray(d)
             \* data.map((v, i) => [i, v]) or Object.entries(data)
             entries == IF isArray
                        THEN [n \in 1..Len(d.items) |->
                                [path |-> IndexPath(path, n - 1), step |-> [i |-> n - 1],
                                 val |-> d.items[n]]]
                        ELSE [n \in 1..Len(d.members) |->
                                [path |-> KeyPath(path, d.members[n].key),
                                 step |-> [k |-> d.members[n].key],
                                 val |-> d.members[n].val]]
             count == Len(entries)
             id == NodeId(Head(rs))
             \* the values left for the call on entry n
             rest(n) == SubSeq(rs, 2 + Sum([m \in 1..(n - 1) |-> RandomCalls(entries[m].val)]),
                               Len(rs))
         IN  IF count = 0 THEN <<Element("tree-bracket", <<>>, node)>>
             ELSE <<[Element("tree-toggle", <<>>, node)
                        EXCEPT !.id = <<<<"t", "o", "g", "g", "l", "e", "-">> \o id>>],
                    Element("tree-bracket", <<>>, node),
                    Element("tree-count", <<>>, node),
                    [Element("tree-node", <<>>, node) EXCEPT !.id = <<id>>]>>
                  \o Flatten([n \in 1..count |->
                        LET childPath == entries[n].path
                            child == Append(node, entries[n].step)
                        IN  <<Element("tree-line", <<>>, child),
                              Element("tree-key", <<childPath>>, child),
                              Element("tree-colon", <<>>, child)>>
                            \o buildTreeHTML(entries[n].val, childPath, child, rest(n))
                            \o (IF n - 1 < count - 1
                                THEN <<Element("tree-comma", <<>>, child)>> ELSE <<>>)])
                  \o <<Element("tree-bracket", <<>>, node)>>

InitTree ==
    /\ pc = "start"
    /\ data \in RenderInputs(MaxTreeNodes)
    /\ rnd \in [1..RandomCalls(data) -> RandomValues]
    /\ obj1 = Null /\ obj2 = Null /\ sameRef = FALSE /\ diffs = <<>>
    /\ reordered = Null /\ stats = <<>> /\ stats2 = <<>> /\ html = <<>>
    /\ text = <<>> /\ engine = "legacy" /\ thrown = <<>> /\ result = <<>>
    /\ stack = 0 /\ outcome = "" /\ highlighted = <<>>
    /\ xml1 = <<>> /\ xml2 = <<>> /\ ts = <<>>
    /\ diffsSwapped = <<>> /\ doc = <<>> /\ searchMatches = <<>> /\ searchIndex = -1
    /\ called = <<>> /\ toasts = <<>> /\ timers = {} /\ shown = 0

\* buildTreeHTML(data) with the default path '$'.
CallBuildTreeHTML ==
    /\ pc = "start"
    /\ html' = buildTreeHTML(data, "$", <<>>, rnd)
    /\ pc' = "done"
    /\ UNCHANGED <<obj1, obj2, sameRef, diffs, data, reordered, stats, stats2,
                   text, engine, thrown, result,
                   stack, outcome, rnd, highlighted, xml1, xml2, ts,
                   diffsSwapped, doc, searchMatches, searchIndex, called, toasts, timers,
                   shown>>

NextTree == CallBuildTreeHTML

SpecTree == InitTree /\ [][NextTree]_vars

\* buildTreeHTML on the trees with a string value.
InitEscape ==
    /\ pc = "start"
    /\ data \in StringTrees(MaxStringLength)
    /\ rnd \in [1..RandomCalls(data) -> RandomValues]
    /\ obj1 = Null /\ obj2 = Null /\ sameRef = FALSE /\ diffs = <<>>
    /\ reordered = Null /\ stats = <<>> /\ stats2 = <<>> /\ html = <<>>
    /\ text = <<>> /\ engine = "legacy" /\ thrown = <<>> /\ result = <<>>
    /\ stack = 0 /\ outcome = "" /\ highlighted = <<>>
    /\ xml1 = <<>> /\ xml2 = <<>> /\ ts = <<>>
    /\ diffsSwapped = <<>> /\ doc = <<>> /\ searchMatches = <<>> /\ searchIndex = -1
    /\ called = <<>> /\ toasts = <<>> /\ timers = {} /\ shown = 0

SpecEscape == InitEscape /\ [][NextTree]_vars

\* C7: within one tree the Path strings identify nodes uniquely: two elements
\* that carry the same data-path were written for the same node, for every
\* key string.
C7_PathsIdentifyNodes ==
    pc = "done" =>
        \A i, j \in 1..Len(html) :
           (html[i].dataPath # <<>> /\ html[i].dataPath = html[j].dataPath)
              => html[i].node = html[j].node

\* The same, for the trees whose keys hold neither '.' nor '['.
C7_PathsOfPlainKeys ==
    (pc = "done" /\ KeysOf(data) \subseteq KeyNames) =>
        \A i, j \in 1..Len(html) :
           (html[i].dataPath # <<>> /\ html[i].dataPath = html[j].dataPath)
              => html[i].node = html[j].node

---------------------------------------------------------------------------
(* getJSONStats *)

\* let keys = 0, depth = 0, arrays = 0, objects = 0, values = 0
ZeroStats == [keys |-> 0, depth |-> 0, arrays |-> 0, objects |-> 0, values |-> 0]

\* The depth that is the depth of the node visited last.
UpdateDepth_LastVisited(depth, d) == d

\* if (d > depth) depth = d
UpdateDepth(depth, d) == IF d > depth THEN d ELSE depth

RECURSIVE traverse(_, _, _), traverseEach(_, _, _)
\* traverse(obj, d) run on the counters st: the counters after it.
traverse(obj, d, st) ==
    LET st1 == [st EXCEPT !.depth = UpdateDepth(st.depth, d)]
    IN  IF IsArray(obj)
        THEN traverseEach(obj.items, d + 1, [st1 EXCEPT !.arrays = @ + 1])
        ELSE IF obj # Null /\ TypeOf(obj) = "object"
        THEN LET k == ObjectKeys(obj)
             IN  traverseEach([n \in 1..Len(k) |-> GetProperty(obj, k[n])], d + 1,
                              [st1 EXCEPT !.objects = @ + 1, !.keys = @ + Len(k)])
        ELSE [st1 EXCEPT !.values = @ + 1]

\* items.forEach(item => traverse(item, d)) run on the counters st.
traverseEach(items, d, st) ==
    IF items = <<>> THEN st
    ELSE traverseEach(Tail(items), d, traverse(Head(items), d, st))

\* The traversal that starts with depth 1 at the root.
getJSONStats_RootDepthOne(d) == traverse(d, 1, ZeroStats)

\* getJSONStats(data)
getJSONStats(d) == traverse(d, 0, ZeroStats)

\* getJSONStats on a tree and on the same tree with the members of its objects
\* in another order.
InitStats ==
    /\ pc = "start"
    /\ data \in TreeInputs(MaxTreeNodes)
    /\ reordered \in Reorderings(data)
    /\ obj1 = Null /\ obj2 = Null /\ sameRef = FALSE /\ diffs = <<>>
    /\ stats = <<>> /\ stats2 = <<>> /\ html = <<>>
    /\ text = <<>> /\ engine = "legacy" /\ thrown = <<>> /\ result = <<>>
    /\ stack = 0 /\ outcome = "" /\ rnd = <<>> /\ highlighted = <<>>
    /\ xml1 = <<>> /\ xml2 = <<>> /\ ts = <<>>
    /\ diffsSwapped = <<>> /\ doc = <<>> /\ searchMatches = <<>> /\ searchIndex = -1
    /\ called = <<>> /\ toasts = <<>> /\ timers = {} /\ shown = 0

CallGetJSONStats ==
    /\ pc = "start"
    /\ stats' = getJSONStats(data)
    /\ stats2' = getJSONStats(reordered)
    /\ pc' = "done"
    /\ UNCHANGED <<obj1, obj2, sameRef, diffs, data, reordered, html,
                   text, engine, thrown, result,
                   stack, outcome, rnd, highlighted, xml1, xml2, ts,
                   diffsSwapped, doc, searchMatches, searchIndex, called, toasts, timers,
                   shown>>

NextStats == CallGetJSONStats

SpecStats == InitStats /\ [][NextStats]_vars

RECURSIVE Positions(_)
\* The positions of the nodes of v: the sequences of steps from the root.
Positions(v) ==
    {<<>>} \cup
    (IF v.t = "list"
     THEN UNION {{<<[i |-> n - 1]>> \o q : q \in Positions(v.items[n])} : n \in 1..Len(v.items)}
     ELSE IF v.t = "obj"
     THEN UNION {{<<[k |-> v.members[n].key]>> \o q : q \in Positions(v.members[n].val)} :
                   n \in 1..Len(v.members)}
     ELSE {})

RECURSIVE NodeAt(_, _)
\* The node of v at position q.
NodeAt(v, q) ==
    IF q = <<>> THEN v
    ELSE IF v.t = "list" THEN NodeAt(v.items[Head(q).i + 1], Tail(q))
    ELSE NodeAt(OwnValue(v, Head(q).k), Tail(q))

\* The statistics by counting over the set of nodes.
ReferenceStats(v) ==
    LET ps == Positions(v)
    IN  [arrays |-> Cardinality({q \in ps : NodeAt(v, q).t = "list"}),
         objects |-> Cardinality({q \in ps : NodeAt(v, q).t = "obj"}),
         keys |-> Cardinality({q \in ps : q # <<>> /\ NodeAt(v, SubSeq(q, 1, Len(q) - 1)).t = "obj"}),
         values |-> Cardinality({q \in ps : NodeAt(v, q).t \in {"null", "bool", "num", "str"}}),
         depth |-> CHOOSE m \in 0..Cardinality(ps) :
                      /\ \E q \in ps : Len(q) = m
                      /\ \A q \in ps : Len(q) <= m]

\* C8: getJSONStats equals the reference traversal: arrays and objects count
\* the List and Object nodes, keys sums the member counts of the Objects,
\* values counts the scalar nodes, depth is the largest depth of a node, the
\* root being at depth 0.
C8_StatsAreReference == pc = "done" => stats = ReferenceStats(data)

\* An Object with a List of one element and a scalar inside: depth 2.
C8_Witness ==
    /\ pc = "done" /\ data.t = "obj"
    /\ stats.depth = 2 /\ stats.arrays = 1 /\ stats.objects = 1
    /\ stats.keys = 2 /\ stats.values = 2

\* C9: permuting the member order of any Object of the tree leaves the five
\* result fields unchanged.
C9_StatsIgnoreMemberOrder == pc = "done" => stats2 = stats

\* Two members of different depth, exchanged.
C9_Witness ==
    /\ pc = "done" /\ data.t = "obj" /\ Len(data.members) = 2
    /\ data.members[1].val.t = "list" /\ data.members[1].val.items # <<>>
    /\ reordered.members[1].key = data.members[2].key
    /\ stats.depth = 2 /\ stats2 = stats

---------------------------------------------------------------------------
(* parseJSON *)

\* A text is a sequence of characters.  The texts are built from these pieces:
\* the JSON of arrays of numbers, line breaks, and a word.
TextChunks ==
    {<<"[">>, <<"]">>, <<"1">>, <<",">>, <<"\n">>,
     <<"p", "o", "s", "i", "t", "i", "o", "n", " ">>}

RECURSIVE ChunkSeqs(_)
ChunkSeqs(n) ==
    IF n = 0 THEN {<<>>}
    ELSE ChunkSeqs(n - 1) \cup {Append(cs, c) : cs \in ChunkSeqs(n - 1), c \in TextChunks}

\* The texts of at most n pieces.
Texts(n) == {Flatten(cs) : cs \in ChunkSeqs(n)}

IsWhitespace(c) == c \in {" ", "\n", "\t", "\r"}
DigitChars == <<"0", "1", "2", "3", "4", "5", "6", "7", "8", "9">>
IsDigit(c) == \E d \in 1..10 : DigitChars[d] = c
DigitValue(c) == (CHOOSE d \in 1..10 : DigitChars[d] = c) - 1

RECURSIVE SkipWhitespace(_, _)
\* The first index from i on that holds no whitespace (Len(s) + 1 if none).
SkipWhitespace(s, i) ==
    IF i <= Len(s) /\ IsWhitespace(s[i]) THEN SkipWhitespace(s, i + 1) ELSE i

RECURSIVE SkipDigits(_, _)
SkipDigits(s, i) == IF i <= Len(s) /\ IsDigit(s[i]) THEN SkipDigits(s, i + 1) ELSE i

RECURSIVE DecimalValue(_)
\* The number a sequence of decimal digits writes.
DecimalValue(ds) ==
    IF ds = <<>> THEN 0
    ELSE 10 * DecimalValue(SubSeq(ds, 1, Len(ds) - 1)) + DigitValue(ds[Len(ds)])

RECURSIVE DecimalDigits(_)
\* The decimal digits of n.
DecimalDigits(n) ==
    IF n < 10 THEN <<DigitChars[n + 1]>>
    ELSE Append(DecimalDigits(n \div 10), DigitChars[(n % 10) + 1])

\* The parser's failure, at the 0-based offset pos.  kind: "token" an
\* unexpected token where a value must start, "element" something else than
\* ',' or ']' after an array element, "after" a character after the value,
\* "eos" the end of the input.
Failure(kind, i) == [ok |-> FALSE, kind |-> kind, pos |-> i - 1]
Parsed(v, next) == [ok |-> TRUE, data |-> v, next |-> next]

RECURSIVE ParseValue(_, _), ParseElements(_, _, _)
\* The JSON value that starts at index i of s (whitespace skipped), for the
\* JSON of the texts: numbers and arrays.
ParseValue(s, i0) ==
    LET i == SkipWhitespace(s, i0)
    IN  IF i > Len(s) THEN Failure("eos", i)
        ELSE IF IsDigit(s[i]) /\ s[i] # "0"
        THEN Parsed(Num(DecimalValue(SubSeq(s, i, SkipDigits(s, i) - 1))), SkipDigits(s, i))
        ELSE IF s[i] = "["
        THEN LET j == SkipWhitespace(s, i + 1)
             IN  IF j > Len(s) THEN Failure("eos", j)
                 ELSE IF s[j] = "]" THEN Parsed(List(<<>>), j + 1)
                 ELSE ParseElements(s, j, <<>>)
        ELSE Failure("token", i)

\* The elements of an array from index i on, after the elements acc.
ParseElements(s, i, acc) ==
    LET r == ParseValue(s, i)
    IN  IF ~r.ok THEN r
        ELSE LET k == SkipWhitespace(s, r.next)
             IN  IF k > Len(s) THEN Failure("eos", k)
                 ELSE IF s[k] = "," THEN ParseElements(s, k + 1, Append(acc, r.data))
                 ELSE IF s[k] = "]" THEN Parsed(List(Append(acc, r.data)), k + 1)
                 ELSE Failure("element", k)

\* JSON.parse(text): the value, or the failure.
JSONParse(s) ==
    LET r == ParseValue(s, 1)
    IN  IF ~r.ok THEN r
        ELSE IF SkipWhitespace(s, r.next) <= Len(s)
        THEN Failure("after", SkipWhitespace(s, r.next))
        ELSE r

\* How engines word the SyntaxError of JSON.parse.  "legacy": V8 before 10.5,
\* 'Unexpected token ] in JSON at position 3'.  "current": V8 since, which
\* quotes the source for an unexpected token, 'Unexpected token ']', "[1,]" is
\* not valid JSON', and gives the position for the other failures.  "other":
\* engines that give no position (SpiderMonkey, JavaScriptCore).
Engines == {"legacy", "current", "other"}

\* Whether the message of the engine for failure f gives the failure offset.
ReportsOffset(e, f) ==
    CASE e = "legacy" -> f.kind # "eos"
      [] e = "current" -> f.kind \in {"element", "after"}
      [] e = "other" -> FALSE

PositionWord == <<"p", "o", "s", "i", "t", "i", "o", "n">>

\* e.message for failure f of JSON.parse(s): a sequence of characters, the
\* wording that never varies written as one element.
ErrorMessage(e, f, s) ==
    IF f.kind = "eos" THEN <<"Unexpected end of JSON input">>
    ELSE IF ReportsOffset(e, f)
    THEN <<"Unexpected token in JSON at ">> \o PositionWord \o <<" ">> \o DecimalDigits(f.pos)
    ELSE IF e = "current"
    THEN <<"Unexpected token, \"">> \o s \o <<"\" is not valid JSON">>
    ELSE <<"JSON.parse: unexpected character of the JSON data">>

\* e.message.match(/position\s+(\d+)/i): <<>> for no match, else <<digits>>,
\* the capture group of the leftmost match.
MatchPosition(m) ==
    LET digitsAt(i) == SkipWhitespace(m, i + 8)
        matches(i) == /\ i + 9 <= Len(m)
                      /\ SubSeq(m, i, i + 7) = PositionWord
                      /\ IsWhitespace(m[i + 8])
                      /\ digitsAt(i) <= Len(m)
                      /\ IsDigit(m[digitsAt(i)])
        starts == {i \in 1..Len(m) : matches(i)}
    IN  IF starts = {} THEN <<>>
        ELSE LET i == CHOOSE x \in starts : \A y \in starts : x <= y
             IN  <<SubSeq(m, digitsAt(i), SkipDigits(m, digitsAt(i)) - 1)>>

RECURSIVE Split(_, _)
\* s.split(sep), sep one character.
Split(s, sep) ==
    IF \A i \in 1..Len(s) : s[i] # sep THEN <<s>>
    ELSE LET i == CHOOSE x \in 1..Len(s) : s[x] = sep /\ \A y \in 1..(x - 1) : s[y] # sep
         IN  <<SubSeq(s, 1, i - 1)>> \o Split(SubSeq(s, i + 1, Len(s)), sep)

\* text.substring(0, pos)
Substring0(s, pos) == SubSeq(s, 1, IF pos < Len(s) THEN pos ELSE Len(s))

\* lines = text.substring(0, pos).split('\n'); line = lines.length;
\* col = lines[lines.length - 1].length + 1
Location(s, pos) ==
    LET lines == Split(Substring0(s, pos), "\n")
    IN  [line |-> Num(Len(lines)), col |-> Num(Len(lines[Len(lines)]) + 1)]

\* parseJSON(text) in engine e: the message caught (<<>> if none) and the
\* returned record.
parseJSON(s, e) ==
    LET r == JSONParse(s)
    IN  IF r.ok
        THEN [thrown |-> <<>>,
              returned |-> [success |-> TRUE, data |-> r.data, error |-> Null]]
        ELSE LET message == ErrorMessage(e, r, s)
                 match == MatchPosition(message)
                 loc == IF match # <<>> THEN Location(s, DecimalValue(match[1]))
                        ELSE [line |-> Null, col |-> Null]
             IN  [thrown |-> message,
                  returned |-> [success |-> FALSE, data |-> Null,
                                error |-> [message |-> message,
                                           line |-> loc.line, col |-> loc.col]]]

InitParse ==
    /\ pc = "start"
    /\ text \in Texts(MaxChunks)
    /\ engine \in Engines
    /\ thrown = <<>> /\ result = <<>>
    /\ obj1 = Null /\ obj2 = Null /\ sameRef = FALSE /\ diffs = <<>>
    /\ data = Null /\ reordered = Null /\ stats = <<>> /\ stats2 = <<>> /\ html = <<>>
    /\ stack = 0 /\ outcome = "" /\ rnd = <<>> /\ highlighted = <<>>
    /\ xml1 = <<>> /\ xml2 = <<>> /\ ts = <<>>
    /\ diffsSwapped = <<>> /\ doc = <<>> /\ searchMatches = <<>> /\ searchIndex = -1
    /\ called = <<>> /\ toasts = <<>> /\ timers = {} /\ shown = 0

CallParseJSON ==
    /\ pc = "start"
    /\ thrown' = parseJSON(text, engine).thrown
    /\ result' = parseJSON(text, engine).returned
    /\ pc' = "done"
    /\ UNCHANGED <<obj1, obj2, sameRef, diffs, data, reordered, stats, stats2, html,
                   text, engine,
                   stack, outcome, rnd, highlighted, xml1, xml2, ts,
                   diffsSwapped, doc, searchMatches, searchIndex, called, toasts, timers,
                   shown>>

NextParse == CallParseJSON

SpecParse == InitParse /\ [][NextParse]_vars

\* The line and column of offset pos in s, as the specification counts them.
ExpectedLocation(s, pos) ==
    LET breaks == {i \in 1..pos : s[i] = "\n"}
        last == IF breaks = {} THEN 0 ELSE CHOOSE x \in breaks : \A y \in breaks : y <= x
    IN  [line |-> Num(1 + Cardinality(breaks)), col |-> Num(1 + (pos - last))]

\* What C10 asks of the result of a failed parse.
FailureReported ==
    LET f == JSONParse(text)
    IN  /\ result.success = FALSE
        /\ result.data = Null
        /\ result.error.message = thrown
        /\ IF ReportsOffset(engine, f)
           THEN /\ result.error.line = ExpectedLocation(text, f.pos).line
                /\ result.error.col = ExpectedLocation(text, f.pos).col
           ELSE result.error.line = Null /\ result.error.col = Null

\* C10: a failed parseJSON returns success = false, data = null and an error
\* whose line and col are those of the failure offset the parser reports, 1
\* plus the line breaks before it and 1 plus the characters since the last of
\* them, and are both null when the parser reports no offset.
C10_ParseFailureLocated == (pc = "done" /\ ~JSONParse(text).ok) => FailureReported

\* The same, in the engines whose messages never quote the source text.
C10_LocatedWithoutQuotedSource ==
    (pc = "done" /\ ~JSONParse(text).ok /\ engine # "current") => FailureReported

\* A failure on the second line that the engine reports with its offset.
C10_LocatedWitness ==
    /\ pc = "done" /\ ~JSONParse(text).ok /\ ReportsOffset(engine, JSONParse(text))
    /\ result.error.line = Num(2) /\ result.error.col = Num(2)

---------------------------------------------------------------------------
(* The recursive traversals on a bounded call stack *)

\* The engine's call stack has room for at most this many nested calls.
MaxStack == 3

RECURSIVE NestedCalls(_)
\* The calls of traverse that are on the stack at once while it runs on obj:
\* traverse calls itself for every item and every member value, with no test
\* of d before the call.
NestedCalls(obj) ==
    LET below(items) == IF items = <<>> THEN 0
                        ELSE CHOOSE m \in {NestedCalls(items[n]) : n \in 1..Len(items)} :
                                \A n \in 1..Len(items) : NestedCalls(items[n]) <= m
    IN  IF IsArray(obj) THEN 1 + below(obj.items)
        ELSE IF obj # Null /\ TypeOf(obj) = "object"
        THEN 1 + below([n \in 1..Len(obj.members) |-> obj.members[n].val])
        ELSE 1

\* getJSONStats(data) on a stack with room for frames nested calls: the engine
\* throws a RangeError out of the call that does not fit.
getJSONStatsOnStack(d, frames) ==
    IF NestedCalls(d) > frames
    THEN [outcome |-> "RangeError", stats |-> <<>>]
    ELSE [outcome |-> "returned", stats |-> getJSONStats(d)]

InitDeep ==
    /\ pc = "start"
    /\ data \in TreeInputs(MaxTreeNodes)
    /\ stack \in 1..MaxStack
    /\ outcome = ""
    /\ obj1 = Null /\ obj2 = Null /\ sameRef = FALSE /\ diffs = <<>>
    /\ reordered = Null /\ stats = <<>> /\ stats2 = <<>> /\ html = <<>>
    /\ text = <<>> /\ engine = "legacy" /\ thrown = <<>> /\ result = <<>>
    /\ rnd = <<>> /\ highlighted = <<>> /\ xml1 = <<>> /\ xml2 = <<>> /\ ts = <<>>
    /\ diffsSwapped = <<>> /\ doc = <<>> /\ searchMatches = <<>> /\ searchIndex = -1
    /\ called = <<>> /\ toasts = <<>> /\ timers = {} /\ shown = 0

CallGetJSONStatsOnStack ==
    /\ pc = "start"
    /\ outcome' = getJSONStatsOnStack(data, stack).outcome
    /\ stats' = getJSONStatsOnStack(data, stack).stats
    /\ pc' = "done"
    /\ UNCHANGED <<obj1, obj2, sameRef, diffs, data, reordered, stats2, html,
                   text, engine, thrown, result, stack, rnd, highlighted, xml1, xml2, ts,
                   diffsSwapped, doc, searchMatches, searchIndex, called, toasts, timers,
                   shown>>

NextDeep == CallGetJSONStatsOnStack

SpecDeep == InitDeep /\ [][NextDeep]_vars

\* C11: a traversal is guarded by a depth limit: on a tree nested deeper than
\* the call stack has room for, the operation ends with a DepthLimitExceeded
\* result of its own, never with the engine's stack exhaustion.
C11_DeepTreeRefused ==
    pc = "done" =>
        /\ outcome \in {"returned", "DepthLimitExceeded"}
        /\ (\E q \in Positions(data) : Len(q) + 1 > stack) => outcome = "DepthLimitExceeded"

\* What the code does instead: the tree that is too deep ends in a RangeError.
C11_DeepTreeExhaustsStack ==
    pc = "done" =>
        ((\E q \in Positions(data) : Len(q) + 1 > stack) <=> outcome = "RangeError")

---------------------------------------------------------------------------
(* Properties of the rendered tree *)

\* The four entities and the characters they stand for.
Entities ==
    {[text |-> <<"&", "a", "m", "p", ";">>, char |-> "&"],
     [text |-> <<"&", "l", "t", ";">>, char |-> "<"],
     [text |-> <<"&", "g", "t", ";">>, char |-> ">"],
     [text |-> <<"&", "q", "u", "o", "t", ";">>, char |-> "\""]}

\* Whether the sequence e is what s holds from index i on.
StartsAt(s, i, e) == i + Len(e) - 1 <= Len(s) /\ SubSeq(s, i, i + Len(e) - 1) = e

RECURSIVE Unescape(_)
\* What a browser reads out of escaped text: every entity is its character.
Unescape(s) ==
    IF s = <<>> THEN <<>>
    ELSE IF \E e \in Entities : StartsAt(s, 1, e.text)
    THEN LET e == CHOOSE e \in Entities : StartsAt(s, 1, e.text)
         IN  <<e.char>> \o Unescape(SubSeq(s, Len(e.text) + 1, Len(s)))
    ELSE <<Head(s)>> \o Unescape(Tail(s))

\* No '<', '>' or '"' remains, and every '&' begins one of the four entities.
NoRawMarkup(s) ==
    \A i \in 1..Len(s) :
       /\ s[i] \notin {"<", ">", "\""}
       /\ s[i] = "&" => \E e \in Entities : StartsAt(s, i, e.text)

\* C12: buildTreeHTML writes every String value between two quotes with '&',
\* '<', '>' and '"' replaced by their entities: no raw occurrence remains in
\* the rendered content, and unescaping it gives back the original string.
C12_StringsEscaped ==
    pc = "done" =>
        \A q \in Positions(data) :
           NodeAt(data, q).t = "str" =>
              \E i \in 1..Len(html) :
                 /\ html[i].node = q /\ html[i].cls = "tree-string"
                 /\ \A j \in 1..Len(html) :
                       (html[j].node = q /\ html[j].cls = "tree-string") => j = i
                 /\ LET c == html[i].content
                        body == SubSeq(c, 2, Len(c) - 1)
                    IN  /\ Len(c) >= 2 /\ c[1] = "\"" /\ c[Len(c)] = "\""
                        /\ NoRawMarkup(body)
                        /\ Unescape(body) = NodeAt(data, q).s

\* The string '&lt;' in a list is rendered as '&amp;lt;'.
C12_Witness ==
    /\ pc = "done"
    /\ data = List(<<Str(<<"&", "l", "t", ";">>)>>)
    /\ \E i \in 1..Len(html) :
          html[i].content = <<"\"", "&", "a", "m", "p", ";", "l", "t", ";", "\"">>

RECURSIVE PathOfPosition(_)
\* The Path of the node at position q: '$', then '.key' for a member and
\* '[index]' for an element.
PathOfPosition(q) ==
    IF q = <<>> THEN "$"
    ELSE LET parent == PathOfPosition(SubSeq(q, 1, Len(q) - 1))
             step == q[Len(q)]
         IN  IF "k" \in DOMAIN step THEN parent \o "." \o step.k
             ELSE parent \o "[" \o ToString(step.i) \o "]"

\* C13: every node of the rendered tree, the root, the non-empty and the empty
\* containers included, has an element whose data-path is the node's Path.
C13_EveryNodeCarriesPath ==
    pc = "done" =>
        \A q \in Positions(data) :
           \E i \in 1..Len(html) : html[i].dataPath = <<PathOfPosition(q)>>

\* What the code does: the nodes below the root and a scalar root carry their
\* Path, a root List or Object carries none.
C13_RootContainerWithoutPath ==
    pc = "done" =>
        \A q \in Positions(data) :
           (\E i \in 1..Len(html) : html[i].dataPath = <<PathOfPosition(q)>>)
              <=> (q # <<>> \/ data.t \notin {"list", "obj"})

\* C14: within one render call the ids of the non-empty containers are
\* pairwise distinct, whatever values the random source returns.
C14_NodeIdsDistinct ==
    pc = "done" =>
        \A i, j \in 1..Len(html) :
           (html[i].cls = "tree-node" /\ html[j].cls = "tree-node" /\ html[i].id = html[j].id)
              => html[i].node = html[j].node

\* What the code gives: the ids are distinct when the random source returned
\* pairwise distinct values.
C14_DistinctWhenRandomDistinct ==
    (pc = "done" /\ \A m, n \in 1..Len(rnd) : rnd[m] = rnd[n] => m = n) =>
        \A i, j \in 1..Len(html) :
           (html[i].cls = "tree-node" /\ html[j].cls = "tree-node" /\ html[i].id = html[j].id)
              => html[i].node = html[j].node

---------------------------------------------------------------------------
(* syntaxHighlight *)

\* The texts highlighted are built from these pieces: a quoted string, a lone
\* quote, a colon, a space, a digit, two keywords, and the characters that
\* start or continue a number, an escape or an entity.
HighlightChunks ==
    {<<"\"", "k", "e", "y", "\"">>, <<"\"">>, <<":">>, <<" ">>, <<"5">>,
     <<"t", "r", "u", "e">>, <<"n", "u", "l", "l">>, <<"-">>, <<".">>, <<"e">>,
     <<"<">>, <<"\\">>}

\* A text highlighted holds at most this many pieces.
MaxHighlightChunks == 4

RECURSIVE HighlightChunkSeqs(_)
HighlightChunkSeqs(n) ==
    IF n = 0 THEN {<<>>}
    ELSE {<<>>} \cup {<<c>> \o cs : c \in HighlightChunks, cs \in HighlightChunkSeqs(n - 1)}

HighlightTexts(n) == {Flatten(cs) : cs \in HighlightChunkSeqs(n)}

LowerCase == {"a", "b", "c", "d", "e", "f", "g", "h", "i", "j", "k", "l", "m",
              "n", "o", "p", "q", "r", "s", "t", "u", "v", "w", "x", "y", "z"}
UpperCase == {"A", "B", "C", "D", "E", "F", "G", "H", "I", "J", "K", "L", "M",
              "N", "O", "P", "Q", "R", "S", "T", "U", "V", "W", "X", "Y", "Z"}

\* [a-zA-Z0-9]
IsAlphaNumeric(c) == c \in LowerCase \/ c \in UpperCase \/ IsDigit(c)

\* \w
IsWordCharacter(c) == IsAlphaNumeric(c) \/ c = "_"

\* \s, of which the texts hold the space only
IsSpace(c) == c \in {" ", "\t", "\n", "\r", "\f"}

\* \b before index i of s
WordBoundary(s, i) ==
    (i - 1 >= 1 /\ i - 1 <= Len(s) /\ IsWordCharacter(s[i - 1]))
        # (i <= Len(s) /\ IsWordCharacter(s[i]))

RECURSIVE ClosingQuote(_, _)
\* (\\u[a-zA-Z0-9]{4}|\\[^u]|[^\\"])*" from index j of s: the index of the
\* quote that ends it, 0 when it does not match.
ClosingQuote(s, j) ==
    IF j > Len(s) THEN 0
    ELSE IF s[j] = "\"" THEN j
    ELSE IF s[j] # "\\" THEN ClosingQuote(s, j + 1)
    ELSE IF j + 1 > Len(s) THEN 0
    ELSE IF s[j + 1] # "u" THEN ClosingQuote(s, j + 2)
    ELSE IF j + 5 <= Len(s) /\ \A k \in (j + 2)..(j + 5) : IsAlphaNumeric(s[k])
    THEN ClosingQuote(s, j + 6)
    ELSE 0

RECURSIVE SkipSpace(_, _)
SkipSpace(s, i) == IF i <= Len(s) /\ IsSpace(s[i]) THEN SkipSpace(s, i + 1) ELSE i

\* "(...)*"(\s*:)? at index i of s: the index after the match, 0 for no match.
MatchString(s, i) ==
    IF s[i] # "\"" THEN 0
    ELSE LET close == ClosingQuote(s, i + 1)
             colon == SkipSpace(s, close + 1)
         IN  IF close = 0 THEN 0
             ELSE IF colon <= Len(s) /\ s[colon] = ":" THEN colon + 1
             ELSE close + 1

Keywords == <<<<"t", "r", "u", "e">>, <<"f", "a", "l", "s", "e">>, <<"n", "u", "l", "l">>>>

\* \b(true|false|null)\b at index i of s
MatchKeyword(s, i) ==
    LET fits(w) == /\ i + Len(w) - 1 <= Len(s)
                   /\ SubSeq(s, i, i + Len(w) - 1) = w
                   /\ WordBoundary(s, i)
                   /\ WordBoundary(s, i + Len(w))
    IN  IF fits(Keywords[1]) THEN i + Len(Keywords[1])
        ELSE IF fits(Keywords[2]) THEN i + Len(Keywords[2])
        ELSE IF fits(Keywords[3]) THEN i + Len(Keywords[3])
        ELSE 0

\* -?\d+(?:\.\d*)?(?:[eE][+\-]?\d+)? at index i of s
MatchNumber(s, i) ==
    LET digits == IF s[i] = "-" THEN i + 1 ELSE i
        hasDigit(j) == j <= Len(s) /\ IsDigit(s[j])
        afterInt == SkipDigits(s, digits)
        afterFrac == IF afterInt <= Len(s) /\ s[afterInt] = "."
                     THEN SkipDigits(s, afterInt + 1) ELSE afterInt
        expDigits == IF afterFrac + 1 <= Len(s) /\ s[afterFrac + 1] \in {"+", "-"}
                     THEN afterFrac + 2 ELSE afterFrac + 1
    IN  IF ~hasDigit(digits) THEN 0
        ELSE IF afterFrac <= Len(s) /\ s[afterFrac] \in {"e", "E"} /\ hasDigit(expDigits)
        THEN SkipDigits(s, expDigits)
        ELSE afterFrac

\* The whole pattern at index i: the alternatives in their order.
MatchAt(s, i) ==
    IF MatchString(s, i) # 0 THEN MatchString(s, i)
    ELSE IF MatchKeyword(s, i) # 0 THEN MatchKeyword(s, i)
    ELSE MatchNumber(s, i)

\* Whether the sequence w occurs in s: /w/.test(s)
Contains(s, w) == \E i \in 1..Len(s) : i + Len(w) - 1 <= Len(s) /\ SubSeq(s, i, i + Len(w) - 1) = w

\* The class chosen with the keywords tested before the quote.
ClassOf_KeywordsFirst(match) ==
    IF Contains(match, Keywords[1]) \/ Contains(match, Keywords[2]) THEN "json-boolean"
    ELSE IF Contains(match, Keywords[3]) THEN "json-null"
    ELSE IF match[1] = "\"" THEN (IF match[Len(match)] = ":" THEN "json-key" ELSE "json-string")
    ELSE "json-number"

\* The class the replacer function chooses for a match.
ClassOf(match) ==
    IF match[1] = "\"" THEN (IF match[Len(match)] = ":" THEN "json-key" ELSE "json-string")
    ELSE IF Contains(match, Keywords[1]) \/ Contains(match, Keywords[2]) THEN "json-boolean"
    ELSE IF Contains(match, Keywords[3]) THEN "json-null"
    ELSE "json-number"

\* The tags are single pieces of the markup; every other piece is a character.
OpenTag(cls) == "<span class=\"" \o cls \o "\">"
CloseTag == "</span>"

RECURSIVE ReplaceMatches(_, _)
\* json.replace(/.../g, function) from index i on: every match, searched from
\* left to right, is replaced by itself inside a span.
ReplaceMatches(s, i) ==
    IF i > Len(s) THEN <<>>
    ELSE LET after == MatchAt(s, i)
         IN  IF after = 0 THEN <<s[i]>> \o ReplaceMatches(s, i + 1)
             ELSE <<OpenTag(ClassOf(SubSeq(s, i, after - 1)))>> \o SubSeq(s, i, after - 1)
                  \o <<CloseTag>> \o ReplaceMatches(s, after)

\* syntaxHighlight(json) for a string json
syntaxHighlight(json) ==
    ReplaceMatches(ReplaceAll(ReplaceAll(ReplaceAll(json, "&", Amp), "<", Lt), ">", Gt), 1)

InitHighlight ==
    /\ pc = "start"
    /\ text \in HighlightTexts(MaxHighlightChunks)
    /\ highlighted = <<>>
    /\ obj1 = Null /\ obj2 = Null /\ sameRef = FALSE /\ diffs = <<>>
    /\ data = Null /\ reordered = Null /\ stats = <<>> /\ stats2 = <<>> /\ html = <<>>
    /\ engine = "legacy" /\ thrown = <<>> /\ result = <<>>
    /\ stack = 0 /\ outcome = "" /\ rnd = <<>> /\ xml1 = <<>> /\ xml2 = <<>> /\ ts = <<>>
    /\ diffsSwapped = <<>> /\ doc = <<>> /\ searchMatches = <<>> /\ searchIndex = -1
    /\ called = <<>> /\ toasts = <<>> /\ timers = {} /\ shown = 0

CallSyntaxHighlight ==
    /\ pc = "start"
    /\ highlighted' = syntaxHighlight(text)
    /\ pc' = "done"
    /\ UNCHANGED <<obj1, obj2, sameRef, diffs, data, reordered, stats, stats2, html,
                   text, engine, thrown, result, stack, outcome, rnd, xml1, xml2, ts,
                   diffsSwapped, doc, searchMatches, searchIndex, called, toasts, timers,
                   shown>>

NextHighlight == CallSyntaxHighlight

SpecHighlight == InitHighlight /\ [][NextHighlight]_vars

---------------------------------------------------------------------------
(* Properties of syntaxHighlight *)

SpanOf ==
    [key |-> "<span class=\"json-key\">", string |-> "<span class=\"json-string\">",
     boolean |-> "<span class=\"json-boolean\">", null |-> "<span class=\"json-null\">",
     number |-> "<span class=\"json-number\">"]

IsOpeningTag(piece) == \E c \in DOMAIN SpanOf : piece = SpanOf[c]
IsClosingTag(piece) == piece = "</span>"
IsTag(piece) == IsOpeningTag(piece) \/ IsClosingTag(piece)

\* The markup with the tags removed.
WithoutTags(out) == SelectSeq(out, LAMBDA piece : ~IsTag(piece))

\* The spans of the markup: an opening tag at i, the next tag a closing one at j.
SpansOf(out) ==
    {sp \in (1..Len(out)) \X (1..Len(out)) :
        /\ sp[1] < sp[2] /\ IsOpeningTag(out[sp[1]]) /\ IsClosingTag(out[sp[2]])
        /\ \A m \in (sp[1] + 1)..(sp[2] - 1) : ~IsTag(out[m])}

AllDigits(t) == \A i \in 1..Len(t) : t[i] \in {"0", "1", "2", "3", "4", "5", "6", "7", "8", "9"}

\* A numeric token: an optional '-', digits, an optional '.' with digits, an
\* optional exponent.
IsNumberToken(t) ==
    \E a, b, c \in 0..Len(t) :
       /\ a <= b /\ b <= c
       /\ LET sign == SubSeq(t, 1, a)
              int == SubSeq(t, a + 1, b)
              frac == SubSeq(t, b + 1, c)
              exp == SubSeq(t, c + 1, Len(t))
          IN  /\ sign \in {<<>>, <<"-">>}
              /\ int # <<>> /\ AllDigits(int)
              /\ frac = <<>> \/ (frac[1] = "." /\ AllDigits(Tail(frac)))
              /\ \/ exp = <<>>
                 \/ /\ exp[1] \in {"e", "E"}
                    /\ \E d \in 2..3 :
                          /\ d <= Len(exp)
                          /\ d = 3 => exp[2] \in {"+", "-"}
                          /\ AllDigits(SubSeq(exp, d, Len(exp)))

\* A quoted string followed by a colon, spaces between them allowed.
IsKeyToken(t) ==
    /\ Len(t) >= 3 /\ t[1] = "\"" /\ t[Len(t)] = ":"
    /\ \E c \in 2..(Len(t) - 1) :
          t[c] = "\"" /\ \A m \in (c + 1)..(Len(t) - 1) : t[m] = " "

IsStringToken(t) == Len(t) >= 2 /\ t[1] = "\"" /\ t[Len(t)] = "\""

\* The class the token t is to be wrapped in.
TokenClass(t) ==
    IF IsKeyToken(t) THEN "key"
    ELSE IF IsStringToken(t) THEN "string"
    ELSE IF t \in {<<"t", "r", "u", "e">>, <<"f", "a", "l", "s", "e">>} THEN "boolean"
    ELSE IF t = <<"n", "u", "l", "l">> THEN "null"
    ELSE IF IsNumberToken(t) THEN "number"
    ELSE "none"

\* The character before piece m of the markup, and the one after it, tags
\* not counted: "" at either end of the text.
CharBefore(out, m) ==
    LET before == WithoutTags(SubSeq(out, 1, m - 1))
    IN  IF before = <<>> THEN "" ELSE before[Len(before)]
CharAfter(out, m) ==
    LET after == WithoutTags(SubSeq(out, m + 1, Len(out)))
    IN  IF after = <<>> THEN "" ELSE after[1]

\* A literal true, false or null that stands as a word of its own at pieces
\* m..n of the markup.
IsKeywordAt(out, m, n) ==
    /\ SubSeq(out, m, n) \in {<<"t", "r", "u", "e">>, <<"f", "a", "l", "s", "e">>,
                              <<"n", "u", "l", "l">>}
    /\ ~IsWordCharacter(CharBefore(out, m))
    /\ ~IsWordCharacter(CharAfter(out, n))

\* C15: syntaxHighlight escapes '&', '<' and '>' of the whole input, then
\* wraps every lexical match in exactly one span: json-key for a quoted string
\* followed by a colon, json-string for another quoted string, json-boolean
\* for true and false, json-null for null, json-number for a numeric token.
\* The text outside the matches is unchanged: removing the inserted tags gives
\* exactly the escaped input.
C15_TokensClassified ==
    pc = "done" =>
        LET spans == SpansOf(highlighted)
            wrapped(m) == \E sp \in spans : sp[1] < m /\ m < sp[2]
        IN  /\ NoRawMarkup(ReplaceAll(WithoutTags(highlighted), "\"", <<>>))
            /\ Unescape(WithoutTags(highlighted)) = text
            /\ \A m \in 1..Len(highlighted) :
                  IsTag(highlighted[m]) => \E sp \in spans : m \in {sp[1], sp[2]}
            /\ \A sp \in spans :
                  LET token == SubSeq(highlighted, sp[1] + 1, sp[2] - 1)
                  IN  /\ TokenClass(token) # "none"
                      /\ highlighted[sp[1]] = SpanOf[TokenClass(token)]
            /\ \A m \in 1..Len(highlighted) :
                  AllDigits(<<highlighted[m]>>) => wrapped(m)
            /\ \A m \in 1..Len(highlighted) :
                  \A n \in {m + 3, m + 4} :
                     (n <= Len(highlighted) /\ IsKeywordAt(highlighted, m, n)) => wrapped(m)
            /\ text = <<"\"", "k", "e", "y", "\"", ":", " ", "5">> =>
                  highlighted = <<"<span class=\"json-key\">", "\"", "k", "e", "y", "\"", ":",
                                  "</span>", " ", "<span class=\"json-number\">", "5",
                                  "</span>">>

\* '"key": 5': a key, a space outside the matches, a number.
C15_Witness ==
    /\ pc = "done"
    /\ text = <<"\"", "k", "e", "y", "\"", ":", " ", "5">>
    /\ WithoutTags(highlighted) = text
    /\ Cardinality(SpansOf(highlighted)) = 2

\* A string that holds a keyword is a string, and the '<' after it is escaped.
C15_WitnessKeywordInString ==
    /\ pc = "done"
    /\ text = <<"\"", "t", "r", "u", "e", "\"", "<">>
    /\ highlighted = <<"<span class=\"json-string\">", "\"", "t", "r", "u", "e", "\"", "</span>",
                       "&", "l", "t", ";">>

---------------------------------------------------------------------------
(* jsonToXml *)

\* The scalars of the trees transcoded: null, a number, the string of its
\* digits, the empty string, and a string of the characters XML escapes.
XmlScalars == {Null, Num(1), Str(<<"1">>), Str(<<>>), Str(<<"<", "&", ">">>)}

\* The trees transcoded, of at most n nodes; their keys are single characters.
XmlInputs(n) == TreesWithUpTo(n, {"a", "b"}, XmlScalars)

\* The pairs of trees transcoded, of at most n nodes in all.
XmlInputPairs(n) ==
    UNION {TreesWith(i, {"a", "b"}, XmlScalars) \X TreesWithUpTo(n - i, {"a", "b"}, XmlScalars) :
             i \in 1..(n - 1)}

\* The pairs of trees hold at most this many nodes in all.
MaxXmlPairNodes == 4

\* The characters of a key, which is a single character.
KeyChars(key) == <<key>>

\* String(data)
StringOf(v) ==
    IF v = Null THEN <<"n", "u", "l", "l">>
    ELSE IF v.t = "str" THEN v.s
    ELSE IF v.t = "bool" THEN (IF v.b THEN <<"t", "r", "u", "e">> ELSE <<"f", "a", "l", "s", "e">>)
    ELSE DecimalDigits(v.n)

\* '  '.repeat(level)
Pad(level) == [i \in 1..(2 * level) |-> " "]

\* data === null ? '' : String(data).replace(/&/g, '&amp;').replace(/</g, '&lt;').replace(/>/g, '&gt;')
ScalarContent(v) ==
    IF v = Null THEN <<>>
    ELSE ReplaceAll(ReplaceAll(ReplaceAll(StringOf(v), "&", Amp), "<", Lt), ">", Gt)

OpenXml(tag) == <<"<">> \o tag \o <<">">>
CloseXml(tag) == <<"<", "/">> \o tag \o <<">">>

\* The elements of a List written with one element around the whole List.
convertList_Wrapped(items, tag, level) ==
    Pad(level) \o OpenXml(tag) \o <<"\n">> \o Flatten(items) \o Pad(level) \o CloseXml(tag)
    \o <<"\n">>

\* The elements of a List, each converted under the tag of the List.
convertList(items, tag, level) == Flatten(items)

RECURSIVE convert(_, _, _)
\* convert(data, tag, level): the text it appends to xml.
convert(d, tag, level) ==
    LET pad == Pad(level)
    IN  IF IsArray(d)
        THEN convertList([n \in 1..Len(d.items) |-> convert(d.items[n], tag, level)], tag, level)
        ELSE IF d # Null /\ TypeOf(d) = "object"
        THEN pad \o OpenXml(tag) \o <<"\n">>
             \o Flatten([n \in 1..Len(d.members) |->
                           convert(d.members[n].val, KeyChars(d.members[n].key), level + 1)])
             \o pad \o CloseXml(tag) \o <<"\n">>
        ELSE pad \o OpenXml(tag) \o ScalarContent(d) \o CloseXml(tag) \o <<"\n">>

\* The declaration is one piece of the text; every other piece is a character.
XmlDeclaration == "<?xml version=\"1.0\" encoding=\"UTF-8\"?>"

\* jsonToXml(obj, rootName)
jsonToXml(obj, rootName) ==
    <<XmlDeclaration, "\n">> \o
    (IF IsArray(obj)
     THEN OpenXml(rootName) \o <<"\n">>
          \o Flatten([n \in 1..Len(obj.items) |->
                        convert(obj.items[n], <<"i", "t", "e", "m">>, 1)])
          \o CloseXml(rootName) \o <<"\n">>
     ELSE IF obj # Null /\ TypeOf(obj) = "object"
     THEN OpenXml(rootName) \o <<"\n">>
          \o Flatten([n \in 1..Len(obj.members) |->
                        convert(obj.members[n].val, KeyChars(obj.members[n].key), 1)])
          \o CloseXml(rootName) \o <<"\n">>
     ELSE OpenXml(rootName) \o StringOf(obj) \o CloseXml(rootName) \o <<"\n">>)

\* rootName = 'root'
RootName == <<"r", "o", "o", "t">>

\* jsonToXml on one tree.
InitXml ==
    /\ pc = "start"
    /\ obj1 \in XmlInputs(MaxTreeNodes)
    /\ obj2 = obj1
    /\ xml1 = <<>> /\ xml2 = <<>>
    /\ sameRef = FALSE /\ diffs = <<>>
    /\ data = Null /\ reordered = Null /\ stats = <<>> /\ stats2 = <<>> /\ html = <<>>
    /\ text = <<>> /\ engine = "legacy" /\ thrown = <<>> /\ result = <<>>
    /\ stack = 0 /\ outcome = "" /\ rnd = <<>> /\ highlighted = <<>> /\ ts = <<>>
    /\ diffsSwapped = <<>> /\ doc = <<>> /\ searchMatches = <<>> /\ searchIndex = -1
    /\ called = <<>> /\ toasts = <<>> /\ timers = {} /\ shown = 0

\* jsonToXml on two trees.
InitXmlPairs ==
    /\ pc = "start"
    /\ \E pair \in XmlInputPairs(MaxXmlPairNodes) : obj1 = pair[1] /\ obj2 = pair[2]
    /\ xml1 = <<>> /\ xml2 = <<>>
    /\ sameRef = FALSE /\ diffs = <<>>
    /\ data = Null /\ reordered = Null /\ stats = <<>> /\ stats2 = <<>> /\ html = <<>>
    /\ text = <<>> /\ engine = "legacy" /\ thrown = <<>> /\ result = <<>>
    /\ stack = 0 /\ outcome = "" /\ rnd = <<>> /\ highlighted = <<>> /\ ts = <<>>
    /\ diffsSwapped = <<>> /\ doc = <<>> /\ searchMatches = <<>> /\ searchIndex = -1
    /\ called = <<>> /\ toasts = <<>> /\ timers = {} /\ shown = 0

CallJsonToXml ==
    /\ pc = "start"
    /\ xml1' = jsonToXml(obj1, RootName)
    /\ xml2' = jsonToXml(obj2, RootName)
    /\ pc' = "done"
    /\ UNCHANGED <<obj1, obj2, sameRef, diffs, data, reordered, stats, stats2, html,
                   text, engine, thrown, result, stack, outcome, rnd, highlighted, ts,
                   diffsSwapped, doc, searchMatches, searchIndex, called, toasts, timers,
                   shown>>

NextXml == CallJsonToXml

SpecXml == InitXml /\ [][NextXml]_vars

SpecXmlPairs == InitXmlPairs /\ [][NextXml]_vars

---------------------------------------------------------------------------
(* Properties of jsonToXml *)

\* The lines of a text: what stands before each of its newlines.
LinesOf(xml) == LET parts == Split(xml, "\n") IN SubSeq(parts, 1, Len(parts) - 1)

RECURSIVE Indentation(_)
\* The number of spaces a line begins with.
Indentation(line) ==
    IF line # <<>> /\ Head(line) = " " THEN 1 + Indentation(Tail(line)) ELSE 0

Unindented(line) == SubSeq(line, Indentation(line) + 1, Len(line))

\* The element name of the node at position q: the key of the nearest member
\* above it, 'item' for an element of the root List, the root name for the root.
TagOfPosition(q) ==
    IF q = <<>> THEN <<"r", "o", "o", "t">>
    ELSE IF \E n \in 1..Len(q) : "k" \in DOMAIN q[n]
    THEN LET n == CHOOSE n \in 1..Len(q) :
                     "k" \in DOMAIN q[n] /\ \A m \in (n + 1)..Len(q) : "k" \notin DOMAIN q[m]
         IN  <<q[n].k>>
    ELSE <<"i", "t", "e", "m">>

\* Whether line is <tag>content</tag> for the scalar v: empty content for
\* null, and else content without a raw '<' or '>' or a stray '&' that
\* unescapes to the text of v.
IsScalarElement(line, tag, v) ==
    LET open == <<"<">> \o tag \o <<">">>
        close == <<"<", "/">> \o tag \o <<">">>
        content == SubSeq(line, Len(open) + 1, Len(line) - Len(close))
    IN  /\ Len(line) >= Len(open) + Len(close)
        /\ SubSeq(line, 1, Len(open)) = open
        /\ SubSeq(line, Len(line) - Len(close) + 1, Len(line)) = close
        /\ IF v.t = "null" THEN content = <<>>
           ELSE /\ NoRawMarkup(content)
                /\ Unescape(content) = (IF v.t = "num" THEN DecimalDigits(v.n) ELSE v.s)

\* C16: jsonToXml emits every scalar, at every position and a scalar root
\* included, as <tag>value</tag> with '&', '<' and '>' escaped in the value
\* and null as empty content.
C16_ScalarsEscapedEverywhere ==
    pc = "done" =>
        \A q \in Positions(obj1) :
           NodeAt(obj1, q).t \in {"null", "num", "str"} =>
              \E n \in 1..Len(LinesOf(xml1)) :
                 IsScalarElement(Unindented(LinesOf(xml1)[n]), TagOfPosition(q), NodeAt(obj1, q))

\* What the code does: the same for the scalars below the root only.
C16_ScalarsEscapedBelowRoot ==
    pc = "done" =>
        \A q \in Positions(obj1) :
           (q # <<>> /\ NodeAt(obj1, q).t \in {"null", "num", "str"}) =>
              \E n \in 1..Len(LinesOf(xml1)) :
                 IsScalarElement(Unindented(LinesOf(xml1)[n]), TagOfPosition(q), NodeAt(obj1, q))

\* C17: for a fixed root name the transcoding is lossless: two trees that are
\* not deeply equal give two different texts, also when they differ only in
\* the nesting of lists, in empty lists or in the type of a scalar.
C17_XmlInjective ==
    pc = "done" => (~DeepEqual(obj1, obj2) => xml1 # xml2)

\* What the code gives: a List of a number and a List of the string of its
\* digits have the same text, and so have an Object with an empty List in it
\* and the empty Object.
C17_SameText ==
    /\ (pc = "done" /\ obj1 = List(<<Num(1)>>) /\ obj2 = List(<<Str(<<"1">>)>>)) => xml1 = xml2
    /\ (pc = "done" /\ obj1 = Obj(<<[key |-> "a", val |-> List(<<>>)]>>) /\ obj2 = Obj(<<>>))
          => xml1 = xml2

RECURSIVE PreOrder(_, _)
\* The positions of the nodes of v at and below position q, in document order.
PreOrder(v, q) ==
    LET node == NodeAt(v, q)
    IN  <<q>> \o
        (IF node.t = "list"
         THEN Flatten([n \in 1..Len(node.items) |-> PreOrder(v, Append(q, [i |-> n - 1]))])
         ELSE IF node.t = "obj"
         THEN Flatten([n \in 1..Len(node.members) |->
                         PreOrder(v, Append(q, [k |-> node.members[n].key]))])
         ELSE <<>>)

\* The elements that enclose the node at position q: the root element, and
\* one for every Object strictly between the root and the node.
NestingLevel(v, q) ==
    1 + Cardinality({n \in 1..(Len(q) - 1) : NodeAt(v, SubSeq(q, 1, n)).t = "obj"})

\* What a line of the text is: the opening of an element, its closing, or a
\* whole element on one line, with its name and its indentation.
LineShape(line) ==
    LET body == Unindented(line)
        first == CHOOSE n \in 1..(Len(body) + 1) : n = Len(body) + 1 \/ body[n] = ">"
        kind == IF Len(body) >= 2 /\ body[1] = "<" /\ body[2] = "/" THEN "close"
                ELSE IF first = Len(body) THEN "open"
                ELSE "leaf"
    IN  [kind |-> kind,
         tag |-> IF kind = "close" THEN SubSeq(body, 3, first - 1) ELSE SubSeq(body, 2, first - 1),
         indent |-> Indentation(line)]

\* C18: the text is the declaration line and exactly one root element.  A List
\* has no element of its own: the elements of a root List are siblings named
\* 'item', the elements of a List under key k are siblings named k at one
\* indentation.  An Object member is one child element named after its key,
\* and every element is indented two spaces per nesting level.
C18_XmlStructure ==
    pc = "done" =>
        LET lines == LinesOf(xml1)
            shapes == [n \in 1..(Len(lines) - 1) |-> LineShape(lines[n + 1])]
            \* the nodes that have an element, in document order
            nodes == SelectSeq(PreOrder(obj1, <<>>),
                               LAMBDA q : q = <<>> \/ NodeAt(obj1, q).t # "list")
            \* the lines that begin an element, in document order
            begins == SelectSeq(shapes, LAMBDA sh : sh.kind # "close")
            level(q) == IF q = <<>> THEN 0 ELSE NestingLevel(obj1, q)
        IN  /\ xml1[Len(xml1)] = "\n"
            /\ lines[1] = <<"<?xml version=\"1.0\" encoding=\"UTF-8\"?>">>
            /\ Cardinality({n \in 1..Len(shapes) :
                              shapes[n].indent = 0 /\ shapes[n].kind # "close"}) = 1
            /\ Len(begins) = Len(nodes)
            /\ \A n \in 1..Len(nodes) :
                  /\ begins[n].tag = TagOfPosition(nodes[n])
                  /\ begins[n].indent = 2 * level(nodes[n])
                  /\ begins[n].kind = "open" <=> NodeAt(obj1, nodes[n]).t \in {"list", "obj"}
            /\ \A n \in 1..Len(shapes) :
                  shapes[n].kind = "open" =>
                     \E m \in (n + 1)..Len(shapes) :
                        /\ shapes[m] = [shapes[n] EXCEPT !.kind = "close"]
                        /\ \A j \in (n + 1)..(m - 1) : shapes[j].indent > shapes[n].indent
            /\ \A m \in 1..Len(shapes) :
                  shapes[m].kind = "close" =>
                     \E n \in 1..(m - 1) :
                        /\ shapes[n] = [shapes[m] EXCEPT !.kind = "open"]
                        /\ \A j \in (n + 1)..(m - 1) : shapes[j].indent > shapes[n].indent

\* {"a": [{"b": 1}]}: the List under 'a' has no element, its Object is named
\* 'a', the member 'b' is one level deeper.
C18_Witness ==
    /\ pc = "done"
    /\ obj1 = Obj(<<[key |-> "a", val |-> List(<<Obj(<<[key |-> "b", val |-> Num(1)]>>)>>)]>>)
    /\ LinesOf(xml1) = << <<"<?xml version=\"1.0\" encoding=\"UTF-8\"?>">>,
                          <<"<", "r", "o", "o", "t", ">">>,
                          <<" ", " ", "<", "a", ">">>,
                          <<" ", " ", " ", " ", "<", "b", ">", "1", "<", "/", "b", ">">>,
                          <<" ", " ", "<", "/", "a", ">">>,
                          <<"<", "/", "r", "o", "o", "t", ">">> >>

---------------------------------------------------------------------------
(* jsonToTypeScript *)

\* The keys of the trees transcoded are sequences of characters here: plain
\* keys, one that capitalizes to the root interface name, and a plural.
TsKeyFamilies ==
    {{<<"a">>, <<"b">>}, {<<"a">>, <<"r", "o", "o", "t">>}, {<<"a">>, <<"a", "s">>}}

TsScalars == {Null, Num(1), Str(<<"x">>)}

\* The trees transcoded, of at most n nodes.
TsInputs(n) == UNION {TreesWithUpTo(n, K, TsScalars) : K \in TsKeyFamilies}

UpperOf ==
    [a |-> "A", b |-> "B", c |-> "C", d |-> "D", e |-> "E", f |-> "F", g |-> "G",
     h |-> "H", i |-> "I", j |-> "J", k |-> "K", l |-> "L", m |-> "M", n |-> "N",
     o |-> "O", p |-> "P", q |-> "Q", r |-> "R", s |-> "S", t |-> "T", u |-> "U",
     v |-> "V", w |-> "W", x |-> "X", y |-> "Y", z |-> "Z"]

\* c.toUpperCase() for one character
ToUpperCase(c) == IF c \in DOMAIN UpperOf THEN UpperOf[c] ELSE c

\* str.charAt(0).toUpperCase() + str.slice(1).replace(/[^a-zA-Z0-9]/g, '')
capitalize(str) ==
    IF str = <<>> THEN <<>>
    ELSE <<ToUpperCase(Head(str))>> \o SelectSeq(Tail(str), IsAlphaNumeric)

\* name.replace(/s$/, '')
Singular(name) ==
    IF name # <<>> /\ name[Len(name)] = "s" THEN SubSeq(name, 1, Len(name) - 1) ELSE name

\* /^[a-zA-Z_$][a-zA-Z0-9_$]*$/.test(key) ? key : `"${key}"`
SafeName(key) ==
    IF /\ key # <<>>
       /\ (key[1] \in LowerCase \/ key[1] \in UpperCase \/ key[1] \in {"_", "$"})
       /\ \A n \in 2..Len(key) : IsAlphaNumeric(key[n]) \/ key[n] \in {"_", "$"}
    THEN key
    ELSE <<"\"">> \o key \o <<"\"">>

\* typeof value, spelled out
TypeOfName(v) ==
    IF TypeOf(v) = "number" THEN <<"n", "u", "m", "b", "e", "r">>
    ELSE IF TypeOf(v) = "string" THEN <<"s", "t", "r", "i", "n", "g">>
    ELSE IF TypeOf(v) = "boolean" THEN <<"b", "o", "o", "l", "e", "a", "n">>
    ELSE <<"o", "b", "j", "e", "c", "t">>

\* The values with every occurrence kept.
Distinct_EveryOccurrence(xs) == xs

RECURSIVE Distinct(_)
\* [...new Set(xs)]: the first occurrence of every value, in order.
Distinct(xs) ==
    IF xs = <<>> THEN <<>>
    ELSE LET init == Distinct(SubSeq(xs, 1, Len(xs) - 1))
             last == xs[Len(xs)]
         IN  IF \E n \in 1..Len(init) : init[n] = last THEN init ELSE Append(init, last)

RECURSIVE Join(_, _)
\* xs.join(sep)
Join(xs, sep) ==
    IF xs = <<>> THEN <<>>
    ELSE IF Len(xs) = 1 THEN xs[1]
    ELSE xs[1] \o sep \o Join(Tail(xs), sep)

\* Object.entries(obj); of an array, its indices as keys
Entries(obj) ==
    IF IsArray(obj)
    THEN [n \in 1..Len(obj.items) |-> [key |-> DecimalDigits(n - 1), val |-> obj.items[n]]]
    ELSE obj.members

\* interfaces = [], seen = new Map()
NoInterfaces == [interfaces |-> <<>>, seen |-> {}]

RECURSIVE getType(_, _, _), getTypes(_, _, _), generateFields(_, _), generateInterface(_, _, _)

\* getType(value, name) run in the state st of interfaces and seen: the type
\* it returns and the state it leaves.
getType(value, name, st) ==
    IF value = Null THEN [type |-> <<"n", "u", "l", "l">>, st |-> st]
    ELSE IF IsArray(value)
    THEN IF Len(value.items) = 0 THEN [type |-> <<"a", "n", "y", "[", "]">>, st |-> st]
         ELSE LET mapped == getTypes(value.items, Singular(name), st)
                  itemTypes == Distinct(mapped.types)
              IN  IF Len(itemTypes) = 1
                  THEN [type |-> itemTypes[1] \o <<"[", "]">>, st |-> mapped.st]
                  ELSE [type |-> <<"(">> \o Join(itemTypes, <<" ", "|", " ">>) \o <<")", "[", "]">>,
                        st |-> mapped.st]
    ELSE IF TypeOf(value) = "object"
    THEN LET iName == capitalize(name)
         IN  IF iName \notin st.seen
             THEN [type |-> iName,
                   st |-> generateInterface(value, iName, [st EXCEPT !.seen = @ \cup {iName}])]
             ELSE [type |-> iName, st |-> st]
    ELSE [type |-> TypeOfName(value), st |-> st]

\* value.map(v => getType(v, name)) run in the state st
getTypes(values, name, st) ==
    IF values = <<>> THEN [types |-> <<>>, st |-> st]
    ELSE LET first == getType(Head(values), name, st)
             others == getTypes(Tail(values), name, first.st)
         IN  [types |-> <<first.type>> \o others.types, st |-> others.st]

\* The forEach of generateInterface over entries: the lines it adds to code
\* and the state it leaves.
generateFields(entries, st) ==
    IF entries = <<>> THEN [code |-> <<>>, st |-> st]
    ELSE LET key == Head(entries).key
             typed == getType(Head(entries).val, key, st)
             others == generateFields(Tail(entries), typed.st)
         IN  [code |-> <<"  ">> \o SafeName(key) \o <<": ">> \o typed.type \o <<";", "\n">>
                       \o others.code,
              st |-> others.st]

\* generateInterface(obj, name) run in the state st: the state it leaves, the
\* code of the interface pushed after the interfaces of its fields.
generateInterface(obj, name, st) ==
    LET body == generateFields(Entries(obj), st)
        code == <<"interface ">> \o name \o <<" {", "\n">> \o body.code \o <<"}">>
    IN  [body.st EXCEPT !.interfaces = Append(@, code)]

\* xs.reverse()
Reverse(xs) == [n \in 1..Len(xs) |-> xs[Len(xs) + 1 - n]]

\* jsonToTypeScript(data, interfaceName): the returned text.  The fixed parts
\* of the templates are single pieces of it; every other piece is a character.
jsonToTypeScript(d, interfaceName) ==
    IF IsArray(d)
    THEN IF Len(d.items) > 0 /\ TypeOf(d.items[1]) = "object" /\ d.items[1] # Null
         THEN Join(Reverse(generateInterface(d.items[1], interfaceName, NoInterfaces).interfaces),
                   <<"\n", "\n">>)
              \o <<"\n", "\n", "type ">> \o interfaceName \o <<"L", "i", "s", "t", " = ">>
              \o interfaceName \o <<"[", "]", ";">>
         ELSE <<"type ">> \o interfaceName \o <<" = ">>
              \o getType(d, interfaceName, NoInterfaces).type \o <<";">>
    ELSE IF TypeOf(d) = "object" /\ d # Null
    THEN Join(Reverse(generateInterface(d, interfaceName, NoInterfaces).interfaces),
              <<"\n", "\n">>)
    ELSE <<"type ">> \o interfaceName \o <<" = ">> \o TypeOfName(d) \o <<";">>

\* interfaceName = 'Root'
InterfaceName == <<"R", "o", "o", "t">>

InitTs ==
    /\ pc = "start"
    /\ data \in TsInputs(MaxTreeNodes)
    /\ ts = <<>>
    /\ obj1 = Null /\ obj2 = Null /\ sameRef = FALSE /\ diffs = <<>>
    /\ reordered = Null /\ stats = <<>> /\ stats2 = <<>> /\ html = <<>>
    /\ text = <<>> /\ engine = "legacy" /\ thrown = <<>> /\ result = <<>>
    /\ stack = 0 /\ outcome = "" /\ rnd = <<>> /\ highlighted = <<>>
    /\ xml1 = <<>> /\ xml2 = <<>>
    /\ diffsSwapped = <<>> /\ doc = <<>> /\ searchMatches = <<>> /\ searchIndex = -1
    /\ called = <<>> /\ toasts = <<>> /\ timers = {} /\ shown = 0

CallJsonToTypeScript ==
    /\ pc = "start"
    /\ ts' = jsonToTypeScript(data, InterfaceName)
    /\ pc' = "done"
    /\ UNCHANGED <<obj1, obj2, sameRef, diffs, data, reordered, stats, stats2, html,
                   text, engine, thrown, result, stack, outcome, rnd, highlighted, xml1, xml2,
                   diffsSwapped, doc, searchMatches, searchIndex, called, toasts, timers,
                   shown>>

NextTs == CallJsonToTypeScript

SpecTs == InitTs /\ [][NextTs]_vars

\* A list-valued field holds at most this many elements.
MaxListItems == 3

\* The elements of the list-valued field: null, a number, two strings, two
\* Objects of different shape, an empty List and a List of a string.
ListElements ==
    {Null, Num(1), Str(<<"a">>), Str(<<"b">>), Obj(<<>>),
     Obj(<<[key |-> <<"i", "d">>, val |-> Num(1)]>>), List(<<>>), List(<<Str(<<"a">>)>>)}

\* The Objects with a field 'tags' that holds a List of at most n elements,
\* alone or after a field 'id' that holds a number or null.
ListFieldInputs(n) ==
    UNION {LET tags == [key |-> <<"t", "a", "g", "s">>, val |-> List(items)]
           IN  {Obj(<<tags>>)}
               \cup {Obj(<<[key |-> <<"i", "d">>, val |-> v], tags>>) : v \in {Num(1), Null}} :
             items \in UNION {[1..k -> ListElements] : k \in 0..n}}

\* jsonToTypeScript on the Objects with a list-valued field.
InitTsFields ==
    /\ pc = "start"
    /\ data \in ListFieldInputs(MaxListItems)
    /\ ts = <<>>
    /\ obj1 = Null /\ obj2 = Null /\ sameRef = FALSE /\ diffs = <<>>
    /\ reordered = Null /\ stats = <<>> /\ stats2 = <<>> /\ html = <<>>
    /\ text = <<>> /\ engine = "legacy" /\ thrown = <<>> /\ result = <<>>
    /\ stack = 0 /\ outcome = "" /\ rnd = <<>> /\ highlighted = <<>>
    /\ xml1 = <<>> /\ xml2 = <<>>
    /\ diffsSwapped = <<>> /\ doc = <<>> /\ searchMatches = <<>> /\ searchIndex = -1
    /\ called = <<>> /\ toasts = <<>> /\ timers = {} /\ shown = 0

SpecTsFields == InitTsFields /\ [][NextTs]_vars

---------------------------------------------------------------------------
(* Properties of jsonToTypeScript *)

\* The lines of the returned text.
TsLines == Split(ts, "\n")

\* The lines that begin an interface block.
InterfaceLines == {n \in 1..Len(TsLines) : TsLines[n] # <<>> /\ TsLines[n][1] = "interface "}

\* The name the block that begins on line n declares.
DeclaredName(n) == SubSeq(TsLines[n], 2, Len(TsLines[n]) - 1)

\* The field lines of the block that begins on line n.
FieldLines(n) ==
    {m \in (n + 1)..Len(TsLines) :
        /\ TsLines[m] # <<>> /\ TsLines[m][1] = "  "
        /\ \A j \in (n + 1)..m : j \notin InterfaceLines}

\* The type written on the field line m.
FieldType(m) ==
    LET line == TsLines[m]
        colon == CHOOSE c \in 1..Len(line) : line[c] = ": " /\ \A b \in 1..(c - 1) : line[b] # ": "
    IN  SubSeq(line, colon + 1, Len(line) - 1)

IsIdentifierCharacter(c) == IsAlphaNumeric(c) \/ c \in {"_", "$"}

\* Whether the type names the interface: the name stands in it as a whole
\* identifier.
Mentions(type, name) ==
    \E i \in 1..Len(type) :
       /\ i + Len(name) - 1 <= Len(type)
       /\ SubSeq(type, i, i + Len(name) - 1) = name
       /\ i = 1 \/ ~IsIdentifierCharacter(type[i - 1])
       /\ i + Len(name) > Len(type) \/ ~IsIdentifierCharacter(type[i + Len(name)])

\* C19: every interface that a field of interface I refers to is declared
\* textually before I.
C19_ReferencedDeclaredBefore ==
    pc = "done" =>
        \A n, j \in InterfaceLines :
           (/\ DeclaredName(j) # DeclaredName(n)
            /\ \E m \in FieldLines(n) : Mentions(FieldType(m), DeclaredName(j)))
              => \E b \in InterfaceLines : b < n /\ DeclaredName(b) = DeclaredName(j)

\* What the code does: the interface of the root is the first block of the
\* text, before every interface its fields refer to.
C19_RootDeclaredFirst ==
    (pc = "done" /\ InterfaceLines # {}) =>
        /\ 1 \in InterfaceLines
        /\ DeclaredName(1) = <<"R", "o", "o", "t">>

\* C20: interfaces are de-duplicated by name: the text holds at most one
\* block for a generated name, the name of the root interface included.
C20_OneBlockPerName ==
    pc = "done" =>
        \A n, j \in InterfaceLines : DeclaredName(n) = DeclaredName(j) => n = j

\* What the code does: only the name of the root interface is declared twice.
C20_OneBlockPerFieldName ==
    pc = "done" =>
        \A n, j \in InterfaceLines :
           (DeclaredName(n) = DeclaredName(j) /\ n # j) =>
              DeclaredName(n) = <<"R", "o", "o", "t">>


\* The types in the order of their first occurrence, each once.
FirstOccurrences(types) ==
    LET firsts == {i \in 1..Len(types) : \A j \in 1..(i - 1) : types[j] # types[i]}
    IN  [n \in 1..Cardinality(firsts) |->
           types[CHOOSE i \in firsts : Cardinality({k \in firsts : k < i}) = n - 1]]

RECURSIVE InferredType(_, _)
\* The type of the value of a field of the given name: 'null' for null,
\* 'any[]' for an empty List, 'T[]' for a List whose elements all infer T,
\* '(T1 | T2 ...)[]' for the distinct element types in the order of their
\* first occurrence otherwise; an Object infers the interface named after the
\* field, a scalar its typeof.
InferredType(v, name) ==
    IF v.t = "null" THEN <<"n", "u", "l", "l">>
    ELSE IF v.t = "num" THEN <<"n", "u", "m", "b", "e", "r">>
    ELSE IF v.t = "str" THEN <<"s", "t", "r", "i", "n", "g">>
    ELSE IF v.t = "bool" THEN <<"b", "o", "o", "l", "e", "a", "n">>
    ELSE IF v.t = "obj" THEN capitalize(name)
    ELSE IF v.items = <<>> THEN <<"a", "n", "y", "[", "]">>
    ELSE LET types == FirstOccurrences([n \in 1..Len(v.items) |->
                                          InferredType(v.items[n], Singular(name))])
             union == [n \in 1..(2 * Len(types) - 1) |->
                         IF n % 2 = 1 THEN types[(n + 1) \div 2] ELSE <<" ", "|", " ">>]
         IN  IF Len(types) = 1 THEN types[1] \o <<"[", "]">>
             ELSE <<"(">> \o Flatten(union) \o <<")", "[", "]">>

\* C21: the type of a list-valued field is 'any[]' for an empty List, 'T[]'
\* when all elements infer the same type T, and otherwise the distinct element
\* types in first-occurrence order joined by ' | ', parenthesized and suffixed
\* with '[]'; null infers 'null'.  {"id": 1, "tags": ["a", "b"]} gives the
\* interface Root with id: number and tags: string[].
C21_ListFieldTypes ==
    pc = "done" =>
        /\ 1 \in InterfaceLines
        /\ \A k \in 1..Len(data.members) :
              /\ k + 1 \in FieldLines(1)
              /\ TsLines[k + 1] = <<"  ">> \o data.members[k].key \o <<": ">>
                                  \o InferredType(data.members[k].val, data.members[k].key)
                                  \o <<";">>
        /\ TsLines[Len(data.members) + 2] = <<"}">>

\* The example: id: number and tags: string[].
C21_Witness ==
    /\ pc = "done"
    /\ data = Obj(<<[key |-> <<"i", "d">>, val |-> Num(1)],
                    [key |-> <<"t", "a", "g", "s">>,
                     val |-> List(<<Str(<<"a">>), Str(<<"b">>)>>)]>>)
    /\ ts = <<"interface ", "R", "o", "o", "t", " {", "\n",
              "  ", "i", "d", ": ", "n", "u", "m", "b", "e", "r", ";", "\n",
              "  ", "t", "a", "g", "s", ": ", "s", "t", "r", "i", "n", "g", "[", "]", ";", "\n",
              "}">>

\* A List of a number, a string and the number again: each type once, in the
\* order of first occurrence.
C21_WitnessUnion ==
    /\ pc = "done"
    /\ data = Obj(<<[key |-> <<"t", "a", "g", "s">>,
                     val |-> List(<<Num(1), Str(<<"a">>), Num(1)>>)]>>)
    /\ TsLines[2] = <<"  ", "t", "a", "g", "s", ": ", "(", "n", "u", "m", "b", "e", "r", " ", "|",
                      " ", "s", "t", "r", "i", "n", "g", ")", "[", "]", ";">>


---------------------------------------------------------------------------
(* searchTree, searchNext, searchPrev *)

\* The tree container holds at most this many text nodes, each of at most
\* this many characters.
MaxTextNodes == 2
MaxTextLength == 2

SearchChars == {"a", "b"}

\* The documents searched: the text nodes of the tree container, in order.
SearchDocs(n, len) ==
    LET nodeTexts == UNION {[1..k -> SearchChars] : k \in 0..len}
    IN  UNION {[1..k -> nodeTexts] : k \in 0..n}

\* The keywords searched for; the empty one is no keyword.  The letters of a
\* keyword match in either case.
SearchKeywords == {<<>>, <<"A">>, <<"b">>, <<"a", "B">>}

\* x % y of JavaScript, whose result has the sign of x
JsRemainder(x, y) == IF x >= 0 THEN x % y ELSE 0 - ((0 - x) % y)

RECURSIVE Occurrences(_, _, _)
\* The offsets at which the regex of flags 'gi' made of the escaped keyword
\* matches in the text from offset i on: from left to right, no two
\* overlapping, letters compared without regard to case.
Occurrences(str, keyword, i) ==
    IF i + Len(keyword) - 1 > Len(str) THEN <<>>
    ELSE IF \A k \in 1..Len(keyword) : ToUpperCase(str[i + k - 1]) = ToUpperCase(keyword[k])
    THEN <<i>> \o Occurrences(str, keyword, i + Len(keyword))
    ELSE Occurrences(str, keyword, i + 1)

\* The spans of class tree-highlight that highlightNode leaves in the
\* container, in document order: one for every match in every text node.
Highlights(d, keyword) ==
    Flatten([n \in 1..Len(d) |->
               LET offsets == Occurrences(d[n], keyword, 1)
               IN  [k \in 1..Len(offsets) |-> [node |-> n, offset |-> offsets[k]]]])

\* The index one step back without the length added before the remainder.
PrevIndex_LengthNotAdded(index, length) == JsRemainder(index - 1, length)

\* (_searchIndex + 1) % _searchMatches.length
NextIndex(index, length) == JsRemainder(index + 1, length)

\* (_searchIndex - 1 + _searchMatches.length) % _searchMatches.length
PrevIndex(index, length) == JsRemainder(index - 1 + length, length)

InitSearch ==
    /\ pc = "start"
    /\ doc \in SearchDocs(MaxTextNodes, MaxTextLength)
    /\ searchMatches = <<>>
    /\ searchIndex = -1
    /\ called = [fn |-> "none", keyword |-> <<>>, count |-> 0, from |-> -1]
    /\ obj1 = Null /\ obj2 = Null /\ sameRef = FALSE /\ diffs = <<>> /\ diffsSwapped = <<>>
    /\ data = Null /\ reordered = Null /\ stats = <<>> /\ stats2 = <<>> /\ html = <<>>
    /\ text = <<>> /\ engine = "legacy" /\ thrown = <<>> /\ result = <<>>
    /\ stack = 0 /\ outcome = "" /\ rnd = <<>> /\ highlighted = <<>>
    /\ xml1 = <<>> /\ xml2 = <<>> /\ ts = <<>>
    /\ toasts = <<>> /\ timers = {} /\ shown = 0

\* What no search function changes.
SearchFrame ==
    /\ pc' = "done"
    /\ UNCHANGED <<obj1, obj2, sameRef, diffs, data, reordered, stats, stats2, html,
                   text, engine, thrown, result, stack, outcome, rnd, highlighted,
                   xml1, xml2, ts, diffsSwapped, doc, toasts, timers, shown>>

\* searchTree(keyword): the cursor is reset, the highlights of the search
\* before are turned back into text, and the container is searched anew.
SearchTree(keyword) ==
    LET found == Highlights(doc, keyword)
        count == Len(found)
    IN  /\ IF keyword = <<>> \/ count = 0
           THEN searchMatches' = <<>> /\ searchIndex' = -1
           ELSE /\ searchMatches' = found
                /\ searchIndex' = IF Len(found) > 0 THEN 0 ELSE -1
        /\ called' = [fn |-> "searchTree", keyword |-> keyword,
                      count |-> IF keyword = <<>> THEN 0 ELSE count, from |-> searchIndex]
        /\ SearchFrame

SearchNext ==
    /\ IF Len(searchMatches) = 0
       THEN UNCHANGED <<searchMatches, searchIndex>>
       ELSE /\ searchIndex' = NextIndex(searchIndex, Len(searchMatches))
            /\ UNCHANGED searchMatches
    /\ called' = [fn |-> "searchNext", keyword |-> <<>>, count |-> 0, from |-> searchIndex]
    /\ SearchFrame

SearchPrev ==
    /\ IF Len(searchMatches) = 0
       THEN UNCHANGED <<searchMatches, searchIndex>>
       ELSE /\ searchIndex' = PrevIndex(searchIndex, Len(searchMatches))
            /\ UNCHANGED searchMatches
    /\ called' = [fn |-> "searchPrev", keyword |-> <<>>, count |-> 0, from |-> searchIndex]
    /\ SearchFrame

NextSearch ==
    \/ \E keyword \in SearchKeywords : SearchTree(keyword)
    \/ SearchNext
    \/ SearchPrev

SpecSearch == InitSearch /\ [][NextSearch]_vars


---------------------------------------------------------------------------
(* Properties of the search cursor *)

\* The remainder that is never negative.
Modulo(x, n) == CHOOSE r \in 0..(n - 1) : \E q \in -2..2 : x = q * n + r

---------------------------------------------------------------------------
(* showToast *)

\* showToast is called at most this many times.
MaxToasts == 6

ToastTypes == {"success", "error"}

\* The toast element the call number id creates.
Toast(id, type) == [id |-> id, className |-> "toast toast-" \o type]

\* The elements with the first one removed, whichever element is meant.
Remove_First(elements, id) == IF elements = <<>> THEN <<>> ELSE Tail(elements)

\* element.remove(): the document without the element; nothing changes when
\* the element is not in the document.
Remove(elements, id) == SelectSeq(elements, LAMBDA el : el.id # id)

InitToast ==
    /\ pc = "start"
    /\ toasts = <<>>
    /\ timers = {}
    /\ shown = 0
    /\ obj1 = Null /\ obj2 = Null /\ sameRef = FALSE /\ diffs = <<>> /\ diffsSwapped = <<>>
    /\ data = Null /\ reordered = Null /\ stats = <<>> /\ stats2 = <<>> /\ html = <<>>
    /\ text = <<>> /\ engine = "legacy" /\ thrown = <<>> /\ result = <<>>
    /\ stack = 0 /\ outcome = "" /\ rnd = <<>> /\ highlighted = <<>>
    /\ xml1 = <<>> /\ xml2 = <<>> /\ ts = <<>>
    /\ doc = <<>> /\ searchMatches = <<>> /\ searchIndex = -1 /\ called = <<>>

\* What showToast and its timers leave alone.
ToastFrame ==
    /\ pc' = "done"
    /\ UNCHANGED <<obj1, obj2, sameRef, diffs, data, reordered, stats, stats2, html,
                   text, engine, thrown, result, stack, outcome, rnd, highlighted,
                   xml1, xml2, ts, diffsSwapped, doc, searchMatches, searchIndex, called>>

\* showToast(message, type): the first toast of the document, if there is
\* one, is removed; a new toast is appended and a timer is set that removes it.
ShowToast(type) ==
    /\ shown < MaxToasts
    /\ LET id == shown + 1
           \* document.querySelector('.toast'); if (existing) existing.remove()
           cleared == IF toasts # <<>> THEN Remove(toasts, Head(toasts).id) ELSE toasts
       IN  /\ toasts' = Append(cleared, Toast(id, type))
           /\ timers' = timers \cup {[toast |-> id]}
           /\ shown' = id
    /\ ToastFrame

\* The callback of a pending timer runs: () => toast.remove()
TimerFires(timer) ==
    /\ toasts' = Remove(toasts, timer.toast)
    /\ timers' = timers \ {timer}
    /\ UNCHANGED shown
    /\ ToastFrame

NextToast ==
    \/ \E type \in ToastTypes : ShowToast(type)
    \/ \E timer \in timers : TimerFires(timer)

SpecToast == InitToast /\ [][NextToast]_vars

\* C23: under any interleaving of showToast calls and expiries of their
\* timers the document holds at most one toast, it is the one shown last, and
\* a timer removes no toast but the one it was created with.
C23_OneToast ==
    /\ [](/\ Len(toasts) <= 1
          /\ toasts # <<>> => toasts[1].id = shown)
    /\ [][(timers' # timers /\ timers' \subseteq timers) =>
             \A n \in 1..Len(toasts) :
                toasts[n].id \notin {timer.toast : timer \in timers \ timers'}
                   => \E m \in 1..Len(toasts') : toasts'[m] = toasts[n]]_vars

\* The timer of the first toast has expired while the second toast is shown.
C23_Witness ==
    /\ shown = 2
    /\ timers = {[toast |-> 2]}
    /\ Len(toasts) = 1 /\ toasts[1].id = 2


---------------------------------------------------------------------------
(* Symmetry of jsonDiff *)

\* The entry read from right to left: an addition is a removal, a removal an
\* addition, and a change has its two values exchanged.
Mirrored(e) ==
    IF e.type = "added" THEN EntryRemoved(e.path, e.value)
    ELSE IF e.type = "removed" THEN EntryAdded(e.path, e.value)
    ELSE EntryChanged(e.path, e.newValue, e.oldValue)

\* How many times e stands in the sequence.
CountOf(entries, e) == Cardinality({n \in 1..Len(entries) : entries[n] = e})

\* C24: the entries of jsonDiff(b, a) are, as a multiset, the entries of
\* jsonDiff(a, b) mirrored; only the order of the entries may differ.
C24_DiffSymmetric ==
    pc = "done" =>
        LET mirrored == [n \in 1..Len(diffs) |-> Mirrored(diffs[n])]
        IN  /\ Len(diffsSwapped) = Len(diffs)
            /\ \A n \in 1..Len(mirrored) :
                  CountOf(diffsSwapped, mirrored[n]) = CountOf(mirrored, mirrored[n])

\* A member removed and a member added: the exchanged call lists the two
\* entries in the other order.
C24_Witness ==
    /\ pc = "done"
    /\ Len(diffs) = 2 /\ diffs[1].type = "removed" /\ diffs[2].type = "added"
    /\ diffsSwapped = <<Mirrored(diffs[2]), Mirrored(diffs[1])>>
    /\ diffsSwapped[1] # diffsSwapped[2]

====
